---- MODULE Spec2Model ----
(***************************************************************************)
(* Chain state machine of the daemon (src/src/core/blockchain.rs): the     *)
(* Blockchain struct, transaction verification and execution, block        *)
(* validation and commit, mempool admission and block templating; and the  *)
(* peer registry (src/xelis_daemon/src/p2p/peer_list.rs): the live peer    *)
(* map under its read/write lock, the stored peer list and the fan-out of  *)
(* remove_peer.                                                            *)
(*                                                                         *)
(* Conventions.                                                            *)
(*  - A digest is modelled as a collision-free tag over the hashed         *)
(*    content: Hash(x) = <<"H", x>>.  The proof-of-work quality of a       *)
(*    digest is the nonce of the hashed header or transaction (the miner   *)
(*    searches nonces until the digest is good enough; in the model the    *)
(*    nonce is the quality it reached).                                    *)
(*  - u64 arithmetic is modelled with a scaled word of U64_MOD values.     *)
(*    An overflowing operation panics in a build with overflow checks and  *)
(*    wraps in a build without: the parameter "checked" of the executing   *)
(*    operators is that build choice, drawn nondeterministically.          *)
(*  - The configuration constants live in crate::config, which is not part *)
(*    of the sources at hand; they are given scaled values.                *)
(***************************************************************************)
EXTENDS Integers, Sequences, FiniteSets, TLC

VARIABLES
    blocks,      \* Blockchain.blocks: Vec<CompleteBlock>
    height,      \* Blockchain.height
    supply,      \* Blockchain.supply
    top_hash,    \* Blockchain.top_hash
    difficulty,  \* Blockchain.difficulty
    mempool,     \* Blockchain.mempool: the set of pending transactions
    accounts,    \* Blockchain.accounts: PublicKey -> Account
    broadcasts,  \* number of blocks handed to p2p.broadcast_block
    now,         \* get_current_time()
    inflight,    \* blocks submitted by concurrent writers, waiting for &mut self
    last,        \* the last call on the chain and its result
    peers,          \* PeerList.peers: peer id -> Arc<Peer>
    cache,          \* PeerList.cache: IpAddr -> StoredPeer
    shared_peers,   \* Peer.peers of every peer object: SocketAddr -> Direction
    peers_lock,     \* holder of the RwLock of PeerList.peers in write mode, or "free"
    shared_locks,   \* the peer objects whose shared-peers Mutex is held
    tasks,          \* the asynchronous calls in progress, one record per task
    peer_disconnect_channel,  \* PeerList.peer_disconnect_channel is Some
    exited,         \* the peer objects that got signal_exit
    max_peers       \* the max_peers the server hands to add_peer

chainVars == <<blocks, height, supply, top_hash, difficulty, mempool, accounts, broadcasts>>
peerVars == <<peers, cache, shared_peers, peers_lock, shared_locks, tasks,
              peer_disconnect_channel, exited, max_peers>>
vars == <<blocks, height, supply, top_hash, difficulty, mempool, accounts, broadcasts, now,
          inflight, last, peers, cache, shared_peers, peers_lock, shared_locks, tasks,
          peer_disconnect_channel, exited, max_peers>>

----------------------------------------------------------------------------
(* Bounds of the model *)

MaxHeight == 3
MaxTime == 1
MaxMempool == 2
MaxHeaderHeight == 6
MaxInflight == 2
MaxPeers == 3
MaxClock == 2
MaxSeconds == 1
MaxFails == 3
MaxPort == 2
MaxInitFails == 1
MaxTopoheight == 3

(* Configuration constants (crate::config), scaled *)

MAX_SUPPLY == 1000
EMISSION_SPEED_FACTOR == 2
DEV_FEE_PERCENT == 5
FEE_PER_KB == 1
MAX_BLOCK_SIZE == 480
MINIMUM_DIFFICULTY == 1
REGISTRATION_DIFFICULTY == 1
U64_MOD == 4096
U8_MOD == 256
PEER_FAIL_TO_CONNECT_LIMIT == 2
PEER_TEMP_BAN_TIME_ON_CONNECT == 1
P2P_EXTEND_PEERLIST_DELAY == 1
PRUNE_SAFETY_LIMIT == 2

DEV_ADDRESS == "dev"
Keys == {"dev", "a", "b"}

----------------------------------------------------------------------------
(* Primitive types *)

Hash(x) == <<"H", x>>

Account(b, n) == [balance |-> b, nonce |-> n]

Tx(k, s, n, f, sg, outs, amt, br, fr) ==
    [kind |-> k, sender |-> s, nonce |-> n, fee |-> f, sig |-> sg,
     outputs |-> outs, amount |-> amt, block_reward |-> br, fee_reward |-> fr]

Out(to, amt) == [to |-> to, amount |-> amt]

RegistrationTx(s, n, f) == Tx("Registration", s, n, f, "none", <<>>, 0, 0, 0)
NormalTx(s, n, f, sg, outs) == Tx("Normal", s, n, f, sg, outs, 0, 0, 0)
BurnTx(s, n, f, sg, amt) == Tx("Burn", s, n, f, sg, <<>>, amt, 0, 0)
CoinbaseTx(s, f, sg, br, fr) == Tx("Coinbase", s, 0, f, sg, <<>>, 0, br, fr)

is_registration(tx) == tx.kind = "Registration"
is_coinbase(tx) == tx.kind = "Coinbase"
has_signature(tx) == tx.sig # "none"
verify_signature(tx) == tx.sig = "good"
require_signature(tx) == tx.kind \in {"Normal", "Burn"}

TxHash(tx) == Hash(tx)

(* Serialized sizes, in bytes *)
TxSize(tx) ==
    CASE tx.kind = "Registration" -> 70
      [] tx.kind = "Coinbase" -> 86
      [] tx.kind = "Burn" -> 110
      [] OTHER -> 102 + 40 * Len(tx.outputs)

Header(b) ==
    [height |-> b.height, timestamp |-> b.timestamp, previous_hash |-> b.previous_hash,
     difficulty |-> b.difficulty, nonce |-> b.nonce, miner_tx |-> b.miner_tx,
     txs_hashes |-> b.txs_hashes]

BlockHash(b) == Hash(Header(b))

(* Hash::zero(): the digest of no header *)
NoHeader ==
    [height |-> -1, timestamp |-> 0, previous_hash |-> <<>>, difficulty |-> 0, nonce |-> 0,
     miner_tx |-> CoinbaseTx("none", 0, "none", 0, 0), txs_hashes |-> <<>>]

ZeroHash == Hash(NoHeader)

BlockSize(b) == 120 + 32 * Len(b.txs_hashes)

CompleteBlock(h, ts, prev, d, n, mtx, hashes, txs) ==
    [height |-> h, timestamp |-> ts, previous_hash |-> prev, difficulty |-> d,
     nonce |-> n, miner_tx |-> mtx, txs_hashes |-> hashes, transactions |-> txs]

Range(s) == {s[i] : i \in 1..Len(s)}

RECURSIVE SumFees(_)
SumFees(txs) == IF txs = <<>> THEN 0 ELSE Head(txs).fee + SumFees(Tail(txs))

RECURSIVE SumSizes(_)
SumSizes(txs) == IF txs = <<>> THEN 0 ELSE TxSize(Head(txs)) + SumSizes(Tail(txs))

RECURSIVE SumAmounts(_)
SumAmounts(outs) == IF outs = <<>> THEN 0 ELSE Head(outs).amount + SumAmounts(Tail(outs))

Max(a, b) == IF a >= b THEN a ELSE b

----------------------------------------------------------------------------
(* Difficulty engine (super::difficulty) *)

Work(hash) == hash[2].nonce

check_difficulty(hash, target) == Work(hash) >= target

calculate_difficulty(parent, current) ==
    IF current.timestamp - parent.timestamp = 0
    THEN current.difficulty + 1
    ELSE Max(MINIMUM_DIFFICULTY, current.difficulty - 1)

----------------------------------------------------------------------------
(* Emission and fees *)

Pow2(n) == 2 ^ n

(* Variant: the reward taken from the supply instead of what is left of it *)
GetBlockRewardOfSupply(s) == s \div Pow2(EMISSION_SPEED_FACTOR)

get_block_reward(s) == (MAX_SUPPLY - s) \div Pow2(EMISSION_SPEED_FACTOR)

calculate_tx_fee(tx_size) ==
    LET size_in_kb == tx_size \div 1024
    IN  (IF tx_size % 1024 # 0 THEN size_in_kb + 1 ELSE size_in_kb) * FEE_PER_KB

----------------------------------------------------------------------------
(* Accounts *)

NoAccounts == [k \in {} |-> Account(0, 0)]

has_account(accts, k) == k \in DOMAIN accts

register_account(accts, k) ==
    [x \in DOMAIN accts \cup {k} |-> IF x = k THEN Account(0, 0) ELSE accts[x]]

----------------------------------------------------------------------------
(* Transaction verification: the error kind of the first failing check, or "Ok" *)

RECURSIVE VerifyOutputs(_, _, _)
VerifyOutputs(accts, tx, outs) ==
    IF outs = <<>> THEN "Ok"
    ELSE IF Head(outs).to = tx.sender THEN "InvalidTransactionToSender"
    ELSE IF ~has_account(accts, Head(outs).to) THEN "AddressNotRegistered"
    ELSE VerifyOutputs(accts, tx, Tail(outs))

VerifyNormal(accts, tx) ==
    IF Len(tx.outputs) = 0 THEN "TxEmpty"
    ELSE IF VerifyOutputs(accts, tx, tx.outputs) # "Ok" THEN VerifyOutputs(accts, tx, tx.outputs)
    ELSE IF accts[tx.sender].balance < tx.fee + SumAmounts(tx.outputs) THEN "NotEnoughFunds"
    ELSE "Ok"

VerifyBurn(accts, tx) ==
    IF accts[tx.sender].balance < tx.amount + tx.fee THEN "NotEnoughFunds" ELSE "Ok"

(* Variant: the registration branch without the look-up of the sender *)
VerifyRegistrationAnySender(accts, tx, hash, disable_nonce_check) ==
    IF ~check_difficulty(hash, REGISTRATION_DIFFICULTY) THEN "InvalidTxRegistrationPoW"
    ELSE "Ok"

VerifyRegistration(accts, tx, hash, disable_nonce_check) ==
    IF has_account(accts, tx.sender) /\ ~disable_nonce_check THEN "AddressAlreadyRegistered"
    ELSE IF ~check_difficulty(hash, REGISTRATION_DIFFICULTY) THEN "InvalidTxRegistrationPoW"
    ELSE "Ok"

VerifyNonce(accts, tx, disable_nonce_check) ==
    IF ~disable_nonce_check /\ accts[tx.sender].nonce # tx.nonce
    THEN "InvalidTransactionNonce"
    ELSE "Ok"

(* Variant: the verification whose Coinbase arm returns Ok *)
VerifyAdmittingCoinbase(accts, tx, hash, disable_nonce_check) ==
    IF require_signature(tx) /\ (~has_signature(tx) \/ ~verify_signature(tx))
    THEN "InvalidTransactionSignature"
    ELSE IF (is_registration(tx) \/ is_coinbase(tx)) /\ tx.fee # 0 THEN "InvalidTxFee"
    ELSE IF ~(is_registration(tx) \/ is_coinbase(tx)) /\ tx.fee < calculate_tx_fee(TxSize(tx))
    THEN "InvalidTxFee"
    ELSE IF is_registration(tx) THEN VerifyRegistration(accts, tx, hash, disable_nonce_check)
    ELSE IF ~has_account(accts, tx.sender) THEN "AddressNotRegistered"
    ELSE IF VerifyNonce(accts, tx, disable_nonce_check) # "Ok"
    THEN VerifyNonce(accts, tx, disable_nonce_check)
    ELSE CASE tx.kind = "Normal" -> VerifyNormal(accts, tx)
           [] tx.kind = "Burn" -> VerifyBurn(accts, tx)
           [] OTHER -> "Ok"

verify_transaction_with_hash(accts, tx, hash, disable_nonce_check) ==
    IF require_signature(tx) /\ (~has_signature(tx) \/ ~verify_signature(tx))
    THEN "InvalidTransactionSignature"
    ELSE IF (is_registration(tx) \/ is_coinbase(tx)) /\ tx.fee # 0 THEN "InvalidTxFee"
    ELSE IF ~(is_registration(tx) \/ is_coinbase(tx)) /\ tx.fee < calculate_tx_fee(TxSize(tx))
    THEN "InvalidTxFee"
    ELSE IF is_registration(tx) THEN VerifyRegistration(accts, tx, hash, disable_nonce_check)
    ELSE IF ~has_account(accts, tx.sender) THEN "AddressNotRegistered"
    ELSE IF VerifyNonce(accts, tx, disable_nonce_check) # "Ok"
    THEN VerifyNonce(accts, tx, disable_nonce_check)
    ELSE CASE tx.kind = "Normal" -> VerifyNormal(accts, tx)
           [] tx.kind = "Burn" -> VerifyBurn(accts, tx)
           [] OTHER -> "CoinbaseTxNotAllowed"

----------------------------------------------------------------------------
(* Transaction execution.  An execution state is                           *)
(*   [accounts, err, ovf]: the ledger, "Ok" or the error or "Panic", and   *)
(* whether a u64 operation wrapped.                                        *)

ExecState(accts) == [accounts |-> accts, err |-> "Ok", ovf |-> FALSE]

(* to_account.balance += amount *)
Credit(st, k, amt, checked) ==
    IF st.err # "Ok" THEN st
    ELSE IF ~has_account(st.accounts, k) THEN [st EXCEPT !.err = "AddressNotRegistered"]
    ELSE LET sum == st.accounts[k].balance + amt
         IN  IF sum >= U64_MOD /\ checked THEN [st EXCEPT !.err = "Panic"]
             ELSE [st EXCEPT !.accounts[k].balance = sum % U64_MOD,
                             !.ovf = st.ovf \/ sum >= U64_MOD]

(* Variant: the debit without the nonce increment *)
DebitWithoutNonce(st, k, amt, checked) ==
    IF st.err # "Ok" THEN st
    ELSE IF ~has_account(st.accounts, k) THEN [st EXCEPT !.err = "AddressNotRegistered"]
    ELSE LET bal == st.accounts[k].balance
         IN  IF bal < amt /\ checked THEN [st EXCEPT !.err = "Panic"]
             ELSE [st EXCEPT !.accounts[k].balance = (bal - amt + U64_MOD) % U64_MOD,
                             !.ovf = st.ovf \/ bal < amt]

(* account.balance -= amount; account.nonce += 1 *)
DebitAndBumpNonce(st, k, amt, checked) ==
    IF st.err # "Ok" THEN st
    ELSE IF ~has_account(st.accounts, k) THEN [st EXCEPT !.err = "AddressNotRegistered"]
    ELSE LET bal == st.accounts[k].balance
         IN  IF bal < amt /\ checked THEN [st EXCEPT !.err = "Panic"]
             ELSE [st EXCEPT !.accounts[k].balance = (bal - amt + U64_MOD) % U64_MOD,
                             !.accounts[k].nonce = st.accounts[k].nonce + 1,
                             !.ovf = st.ovf \/ bal < amt]

RECURSIVE CreditOutputs(_, _, _)
CreditOutputs(st, outs, checked) ==
    IF outs = <<>> THEN st
    ELSE CreditOutputs(Credit(st, Head(outs).to, Head(outs).amount, checked), Tail(outs), checked)

ExecuteCoinbase(st, tx, checked) ==
    LET dev_fee == IF DEV_FEE_PERCENT # 0 THEN (tx.block_reward * DEV_FEE_PERCENT) \div 100 ELSE 0
        st1 == IF DEV_FEE_PERCENT # 0 THEN Credit(st, DEV_ADDRESS, dev_fee, checked) ELSE st
    IN  Credit(st1, tx.sender, (tx.block_reward - dev_fee) + tx.fee_reward, checked)

execute_transaction(st, tx, checked) ==
    IF st.err # "Ok" THEN st
    ELSE CASE tx.kind = "Burn" ->
                DebitAndBumpNonce(st, tx.sender, tx.amount + tx.fee, checked)
           [] tx.kind = "Normal" ->
                DebitAndBumpNonce(CreditOutputs(st, tx.outputs, checked), tx.sender,
                                  tx.fee + SumAmounts(tx.outputs), checked)
           [] tx.kind = "Registration" ->
                [st EXCEPT !.accounts = register_account(st.accounts, tx.sender)]
           [] OTHER -> ExecuteCoinbase(st, tx, checked)

RECURSIVE ExecuteAll(_, _, _)
ExecuteAll(st, txs, checked) ==
    IF txs = <<>> THEN st
    ELSE ExecuteAll(execute_transaction(st, Head(txs), checked), Tail(txs), checked)

----------------------------------------------------------------------------
(* The chain.  A chain state is the record of the Blockchain fields. *)

Chain(bl, h, s, th, d, mp, ac, bcst) ==
    [blocks |-> bl, height |-> h, supply |-> s, top_hash |-> th, difficulty |-> d,
     mempool |-> mp, accounts |-> ac, broadcasts |-> bcst]

(* [err, block]: Ok(&blocks[height]), Err(InvalidBlockHeight) or the panic *)
(* of the out-of-bounds index                                              *)
get_block_at_height(bc, h) ==
    IF h > bc.height THEN [err |-> "InvalidBlockHeight", block |-> <<>>]
    ELSE IF h + 1 > Len(bc.blocks) THEN [err |-> "Panic", block |-> <<>>]
    ELSE [err |-> "Ok", block |-> bc.blocks[h + 1]]

(* Variant: the header checks without the comparison to the parent's timestamp *)
HeaderCheckNoParentTime(bc, block, t) ==
    IF bc.height # block.height THEN "InvalidBlockHeight"
    ELSE IF bc.difficulty # block.difficulty
            \/ ~check_difficulty(BlockHash(block), bc.difficulty)
    THEN "InvalidDifficulty"
    ELSE IF block.timestamp > t THEN "TimestampIsInFuture"
    ELSE IF bc.height # 0
    THEN LET previous_block == get_block_at_height(bc, bc.height - 1)
         IN  IF previous_block.err # "Ok" THEN previous_block.err
             ELSE IF BlockHash(previous_block.block) # block.previous_hash
             THEN "InvalidPreviousBlockHash"
             ELSE "Ok"
    ELSE "Ok"

(* Variant: the header checks without the height comparison *)
HeaderCheckNoHeight(bc, block, t) ==
    IF bc.difficulty # block.difficulty
       \/ ~check_difficulty(BlockHash(block), bc.difficulty)
    THEN "InvalidDifficulty"
    ELSE IF block.timestamp > t THEN "TimestampIsInFuture"
    ELSE IF bc.height # 0
    THEN LET previous_block == get_block_at_height(bc, bc.height - 1)
         IN  IF previous_block.err # "Ok" THEN previous_block.err
             ELSE IF BlockHash(previous_block.block) # block.previous_hash
             THEN "InvalidPreviousBlockHash"
             ELSE IF previous_block.block.timestamp > block.timestamp
             THEN "TimestampIsLessThanParent"
             ELSE "Ok"
    ELSE "Ok"

(* Header checks of add_new_block against the chain tip, at wall clock t *)
HeaderCheck(bc, block, t) ==
    IF bc.height # block.height THEN "InvalidBlockHeight"
    ELSE IF bc.difficulty # block.difficulty
            \/ ~check_difficulty(BlockHash(block), bc.difficulty)
    THEN "InvalidDifficulty"
    ELSE IF block.timestamp > t THEN "TimestampIsInFuture"
    ELSE IF bc.height # 0
    THEN LET previous_block == get_block_at_height(bc, bc.height - 1)
         IN  IF previous_block.err # "Ok" THEN previous_block.err
             ELSE IF BlockHash(previous_block.block) # block.previous_hash
             THEN "InvalidPreviousBlockHash"
             ELSE IF previous_block.block.timestamp > block.timestamp
             THEN "TimestampIsLessThanParent"
             ELSE "Ok"
    ELSE "Ok"

(* One transaction of the verification loop: cache_tx and registrations   *)
(* are the loop's two maps                                                 *)
VerifyBlockTx(accts, block, tx, cache_tx, registrations) ==
    IF TxHash(tx) \in cache_tx THEN "TxAlreadyInBlock"
    ELSE IF TxHash(tx) \notin Range(block.txs_hashes) THEN "InvalidTxInBlock"
    ELSE IF is_coinbase(tx) THEN "InvalidTxInBlock"
    ELSE IF is_registration(tx) /\ tx.sender \in registrations THEN "DuplicateRegistration"
    ELSE verify_transaction_with_hash(accts, tx, TxHash(tx), FALSE)

RECURSIVE VerifyBlockTxs(_, _, _, _, _)
VerifyBlockTxs(accts, block, i, cache_tx, registrations) ==
    IF i > Len(block.transactions) THEN "Ok"
    ELSE LET tx == block.transactions[i]
             r == VerifyBlockTx(accts, block, tx, cache_tx, registrations)
         IN  IF r # "Ok" THEN r
             ELSE VerifyBlockTxs(accts, block, i + 1, cache_tx \cup {TxHash(tx)},
                                 IF is_registration(tx) THEN registrations \cup {tx.sender}
                                 ELSE registrations)

(* The transaction verification scope of add_new_block *)
TxSetCheck(bc, block) ==
    IF Len(block.txs_hashes) # Len(block.transactions) THEN "InvalidBlockTxs"
    ELSE IF VerifyBlockTxs(bc.accounts, block, 1, {}, {}) # "Ok"
    THEN VerifyBlockTxs(bc.accounts, block, 1, {}, {})
    ELSE IF BlockSize(block) + SumSizes(block.transactions) > MAX_BLOCK_SIZE
    THEN "InvalidBlockSize"
    ELSE IF Cardinality({TxHash(block.transactions[i]) : i \in 1..Len(block.transactions)})
            # Len(block.transactions)
    THEN "InvalidBlockTxs"
    ELSE "Ok"

(* Variant: the miner transaction verification without the fee_reward comparison *)
MinerTxCheckNoFeeReward(bc, block) ==
    LET mtx == block.miner_tx
    IN  IF ~is_coinbase(mtx) THEN "InvalidMinerTx"
        ELSE IF ~has_account(bc.accounts, mtx.sender) THEN "AddressNotRegistered"
        ELSE IF mtx.fee # 0 THEN "InvalidTxFee"
        ELSE IF has_signature(mtx) THEN "InvalidTransactionSignature"
        ELSE IF mtx.block_reward # get_block_reward(bc.supply) THEN "InvalidBlockReward"
        ELSE "Ok"

(* The miner transaction verification of add_new_block *)
MinerTxCheck(bc, block) ==
    LET block_reward == get_block_reward(bc.supply)
        total_fees == SumFees(block.transactions)
        mtx == block.miner_tx
    IN  IF ~is_coinbase(mtx) THEN "InvalidMinerTx"
        ELSE IF ~has_account(bc.accounts, mtx.sender) THEN "AddressNotRegistered"
        ELSE IF mtx.fee # 0 THEN "InvalidTxFee"
        ELSE IF has_signature(mtx) THEN "InvalidTransactionSignature"
        ELSE IF mtx.block_reward # block_reward \/ mtx.fee_reward # total_fees
        THEN "InvalidBlockReward"
        ELSE "Ok"

(* The validation part of add_new_block: the first failing check *)
ValidateBlock(bc, block, t) ==
    IF HeaderCheck(bc, block, t) # "Ok" THEN HeaderCheck(bc, block, t)
    ELSE IF TxSetCheck(bc, block) # "Ok" THEN TxSetCheck(bc, block)
    ELSE MinerTxCheck(bc, block)

(* remove all txs present in mempool *)
RemoveFromMempool(mp, hashes) == {tx \in mp : TxHash(tx) \notin Range(hashes)}

(* execute all txs, then the coinbase tx *)
ExecuteBlock(accts, block, checked) ==
    execute_transaction(ExecuteAll(ExecState(accts), block.transactions, checked),
                        block.miner_tx, checked)

NextDifficulty(bc, block) ==
    IF bc.height > 2
    THEN calculate_difficulty(bc.blocks[bc.height], block)
    ELSE bc.difficulty

(* Variant: the commit that stores the current height instead of the next *)
CommitBlockSameHeight(bc, block, accts) ==
    Chain(Append(bc.blocks, block),
          bc.height,
          (bc.supply + get_block_reward(bc.supply)) % U64_MOD,
          BlockHash(block),
          NextDifficulty(bc, block),
          RemoveFromMempool(bc.mempool, block.txs_hashes),
          accts,
          IF bc.height # 0 THEN bc.broadcasts + 1 ELSE bc.broadcasts)

(* The stores and the push that end add_new_block *)
CommitBlock(bc, block, accts) ==
    Chain(Append(bc.blocks, block),
          bc.height + 1,
          (bc.supply + get_block_reward(bc.supply)) % U64_MOD,
          BlockHash(block),
          NextDifficulty(bc, block),
          RemoveFromMempool(bc.mempool, block.txs_hashes),
          accts,
          IF bc.height # 0 THEN bc.broadcasts + 1 ELSE bc.broadcasts)

(* Variant: the mempool is cleaned before the miner transaction is verified *)
AddNewBlockEarlyRemoval(bc, block, t, checked) ==
    LET st == ExecuteBlock(bc.accounts, block, checked)
        cleaned == [bc EXCEPT !.mempool = RemoveFromMempool(bc.mempool, block.txs_hashes)]
    IN  IF HeaderCheck(bc, block, t) # "Ok"
        THEN [err |-> HeaderCheck(bc, block, t), ovf |-> FALSE, chain |-> bc]
        ELSE IF TxSetCheck(bc, block) # "Ok"
        THEN [err |-> TxSetCheck(bc, block), ovf |-> FALSE, chain |-> bc]
        ELSE IF MinerTxCheck(bc, block) # "Ok"
        THEN [err |-> MinerTxCheck(bc, block), ovf |-> FALSE, chain |-> cleaned]
        ELSE IF st.err # "Ok"
        THEN [err |-> st.err, ovf |-> st.ovf, chain |-> [cleaned EXCEPT !.accounts = st.accounts]]
        ELSE [err |-> "Ok", ovf |-> st.ovf, chain |-> CommitBlock(bc, block, st.accounts)]

(* add_new_block: [err, ovf, chain]; err is "Ok", the error returned or    *)
(* "Panic", chain is the state the call leaves                             *)
add_new_block(bc, block, t, checked) ==
    LET v == ValidateBlock(bc, block, t)
        st == ExecuteBlock(bc.accounts, block, checked)
    IN  IF v # "Ok" THEN [err |-> v, ovf |-> FALSE, chain |-> bc]
        ELSE IF st.err # "Ok"
        THEN [err |-> st.err, ovf |-> st.ovf,
              chain |-> [bc EXCEPT !.mempool = RemoveFromMempool(bc.mempool, block.txs_hashes),
                                   !.accounts = st.accounts]]
        ELSE [err |-> "Ok", ovf |-> st.ovf, chain |-> CommitBlock(bc, block, st.accounts)]

(* Variant: add_tx_to_mempool without the duplicate test *)
AddTxToMempoolNoDuplicateTest(bc, tx) ==
    IF verify_transaction_with_hash(bc.accounts, tx, TxHash(tx), FALSE) # "Ok"
    THEN [err |-> verify_transaction_with_hash(bc.accounts, tx, TxHash(tx), FALSE), chain |-> bc]
    ELSE [err |-> "Ok", chain |-> [bc EXCEPT !.mempool = bc.mempool \cup {tx}]]

(* add_tx_to_mempool: [err, chain] *)
add_tx_to_mempool(bc, tx) ==
    IF \E x \in bc.mempool : TxHash(x) = TxHash(tx)
    THEN [err |-> "TxAlreadyInMempool", chain |-> bc]
    ELSE IF verify_transaction_with_hash(bc.accounts, tx, TxHash(tx), FALSE) # "Ok"
    THEN [err |-> verify_transaction_with_hash(bc.accounts, tx, TxHash(tx), FALSE), chain |-> bc]
    ELSE [err |-> "Ok", chain |-> [bc EXCEPT !.mempool = bc.mempool \cup {tx}]]

----------------------------------------------------------------------------
(* Block templating and mining *)

(* Mempool: contains_tx, view_tx, and get_sorted_txs, the orders of the   *)
(* pool by decreasing fee                                                  *)
contains_tx(mp, hash) == \E tx \in mp : TxHash(tx) = hash

view_tx(mp, hash) == CHOOSE tx \in mp : TxHash(tx) = hash

SortedViews(mp) ==
    {sq \in [1..Cardinality(mp) -> mp] :
        /\ \A i, j \in 1..Len(sq) : i # j => sq[i] # sq[j]
        /\ \A i \in 1..Len(sq) - 1 : sq[i].fee >= sq[i + 1].fee}

(* The while loop of get_block_template over the sorted view *)
RECURSIVE TemplateFill(_, _, _, _, _)
TemplateFill(block, txs, index, total_fee, tx_size) ==
    IF Len(txs) > index - 1 /\ BlockSize(block) + tx_size < MAX_BLOCK_SIZE
    THEN TemplateFill([block EXCEPT !.txs_hashes = Append(@, TxHash(txs[index]))],
                      txs, index + 1, total_fee + txs[index].fee, tx_size + TxSize(txs[index]))
    ELSE [block EXCEPT !.miner_tx.fee_reward = total_fee]

get_block_template(bc, address, t, txs) ==
    TemplateFill(CompleteBlock(bc.height, t, bc.top_hash, bc.difficulty, 0,
                               CoinbaseTx(address, 0, "none", get_block_reward(bc.supply), 0),
                               <<>>, <<>>),
                 txs, 1, 0, 0)

(* view_tx of every hash of the header, cloned in order *)
build_complete_block_from_block(bc, block) ==
    IF \A i \in 1..Len(block.txs_hashes) : contains_tx(bc.mempool, block.txs_hashes[i])
    THEN [err |-> "Ok",
          block |-> [block EXCEPT !.transactions =
                        [i \in 1..Len(block.txs_hashes) |-> view_tx(bc.mempool, block.txs_hashes[i])]]]
    ELSE [err |-> "TxNotFound", block |-> block]

(* The nonce search of mine_block: the first nonce whose digest is good enough *)
Mined(block, d, t) ==
    IF check_difficulty(BlockHash(block), d) THEN block
    ELSE [block EXCEPT !.nonce = d, !.timestamp = t]

mine_block(bc, key, t, txs, checked) ==
    LET complete_block ==
            build_complete_block_from_block(bc, Mined(get_block_template(bc, key, t, txs),
                                                      bc.difficulty, t))
    IN  IF complete_block.err # "Ok"
        THEN [err |-> complete_block.err, ovf |-> FALSE, chain |-> bc]
        ELSE add_new_block(bc, complete_block.block, t, checked)

----------------------------------------------------------------------------
(* Construction: Blockchain::new, then create_genesis_block *)

EmptyChain ==
    Chain(<<>>, 0, 0, ZeroHash, MINIMUM_DIFFICULTY, {}, NoAccounts, 0)

(* The configured genesis block: mined by the dev address at time 0 *)
GenesisBlock ==
    Mined(get_block_template(EmptyChain, DEV_ADDRESS, 0, <<>>), MINIMUM_DIFFICULTY, 0)

(* GENESIS_BLOCK set: the dev account is registered and the block applied *)
GenesisChain ==
    add_new_block([EmptyChain EXCEPT !.accounts = register_account(NoAccounts, DEV_ADDRESS)],
                  GenesisBlock, 0, TRUE).chain

----------------------------------------------------------------------------
(* Inputs: the transactions and blocks submitted to the chain *)

(* Transactions that some reachable chain state accepts *)
CoreTxs ==
    {RegistrationTx("a", REGISTRATION_DIFFICULTY, 0),
     NormalTx("dev", 0, FEE_PER_KB, "good", <<Out("a", 10)>>),
     NormalTx("dev", 0, FEE_PER_KB, "good", <<Out("a", 300)>>),
     NormalTx("dev", 0, FEE_PER_KB, "good", <<Out("a", 301)>>),
     NormalTx("dev", 1, FEE_PER_KB, "good", <<Out("a", 10)>>),
     BurnTx("dev", 0, FEE_PER_KB, "good", 20)}

(* A second registration of "a" and a transfer with two outputs *)
ExtraTxs ==
    {RegistrationTx("a", REGISTRATION_DIFFICULTY + 1, 0),
     NormalTx("dev", 0, FEE_PER_KB, "good", <<Out("a", 10), Out("a", 20)>>)}

(* Transactions with one defect each *)
FaultTxs ==
    {RegistrationTx("a", REGISTRATION_DIFFICULTY - 1, 0),
     RegistrationTx("a", REGISTRATION_DIFFICULTY, 1),
     RegistrationTx("dev", REGISTRATION_DIFFICULTY, 0),
     NormalTx("dev", 0, FEE_PER_KB, "good", <<Out("dev", 10)>>),
     NormalTx("dev", 0, FEE_PER_KB, "good", <<Out("b", 10)>>),
     NormalTx("b", 0, FEE_PER_KB, "good", <<Out("dev", 10)>>),
     NormalTx("dev", 0, FEE_PER_KB - 1, "good", <<Out("a", 10)>>),
     NormalTx("dev", 0, FEE_PER_KB, "none", <<Out("a", 10)>>),
     NormalTx("dev", 0, FEE_PER_KB, "bad", <<Out("a", 10)>>),
     NormalTx("dev", 0, FEE_PER_KB, "good", <<>>),
     BurnTx("dev", 0, FEE_PER_KB, "good", 900),
     CoinbaseTx("dev", 0, "none", 10, 0)}

TxUniverse == CoreTxs \cup ExtraTxs \cup FaultTxs

TxLists ==
    {<<>>} \cup {<<x>> : x \in TxUniverse} \cup {<<x, y>> : x, y \in CoreTxs}
    \cup {<<x, y>> : x, y \in ExtraTxs \cup {RegistrationTx("a", REGISTRATION_DIFFICULTY, 0)}}

HashesOf(txs) == [i \in 1..Len(txs) |-> TxHash(txs[i])]

Reverse(sq) == [i \in 1..Len(sq) |-> sq[Len(sq) + 1 - i]]

(* The block a correct miner builds on the tip for the transactions txs *)
WellFormed(bc, t, miner, txs) ==
    CompleteBlock(bc.height, t, bc.top_hash, bc.difficulty, bc.difficulty,
                  CoinbaseTx(miner, 0, "none", get_block_reward(bc.supply), SumFees(txs)),
                  HashesOf(txs), txs)

HeaderFaults(b) ==
    {[b EXCEPT !.height = @ + 1], [b EXCEPT !.height = Max(0, @ - 1)],
     [b EXCEPT !.difficulty = @ + 1], [b EXCEPT !.nonce = @ - 1],
     [b EXCEPT !.timestamp = @ + 1], [b EXCEPT !.timestamp = Max(0, @ - 1)],
     [b EXCEPT !.previous_hash = Hash([NoHeader EXCEPT !.nonce = 1])]}

MinerTxFaults(b) ==
    {[b EXCEPT !.miner_tx = BurnTx(b.miner_tx.sender, 0, 0, "none", 0)],
     [b EXCEPT !.miner_tx.fee = 1], [b EXCEPT !.miner_tx.sig = "good"],
     [b EXCEPT !.miner_tx.block_reward = @ + 1],
     [b EXCEPT !.miner_tx.fee_reward = @ + 1]}

HashListFaults(b) ==
    {[b EXCEPT !.txs_hashes = Reverse(@)],
     [b EXCEPT !.txs_hashes = Tail(@)],
     [b EXCEPT !.txs_hashes = <<TxHash(CoinbaseTx("b", 0, "none", 0, 0))>> \o Tail(@)]}

(* Lists whose header hash list is also submitted reordered, cut or replaced *)
HashFaultLists ==
    {<<RegistrationTx("a", REGISTRATION_DIFFICULTY, 0), BurnTx("dev", 0, FEE_PER_KB, "good", 20)>>,
     <<NormalTx("dev", 0, FEE_PER_KB, "good", <<Out("a", 10)>>),
       BurnTx("dev", 0, FEE_PER_KB, "good", 20)>>}

(* Blocks without transactions: every miner, and every header defect *)
HeaderCandidates(bc, t) ==
    {WellFormed(bc, t, m, <<>>) : m \in Keys}
    \cup HeaderFaults(WellFormed(bc, t, DEV_ADDRESS, <<>>))

CandidateBlocks(bc, t) ==
    {WellFormed(bc, t, DEV_ADDRESS, txs) : txs \in TxLists}
    \cup {WellFormed(bc, t, m, <<>>) : m \in Keys}
    \cup {WellFormed(bc, t, "b", <<x>>) : x \in CoreTxs}
    \cup UNION {HashListFaults(WellFormed(bc, t, DEV_ADDRESS, txs)) : txs \in HashFaultLists}
    \cup HeaderFaults(WellFormed(bc, t, DEV_ADDRESS, <<>>))
    \cup MinerTxFaults(WellFormed(bc, t, DEV_ADDRESS, <<>>))

----------------------------------------------------------------------------
(* The peer registry: data.  Peer, Direction and the disk cache are not    *)
(* part of the sources at hand; a peer object is the record of what the    *)
(* registry reads from it, the cache is a map from ip to StoredPeer.       *)

Peer(o, id, ip, lp, sh) ==
    [obj |-> o, id |-> id, ip |-> ip, local_port |-> lp, sharable |-> sh]

NoPeer == Peer(0, 0, "none", 0, FALSE)

SocketAddr(ip, port) == [ip |-> ip, port |-> port]

get_outgoing_address(p) == SocketAddr(p.ip, p.local_port)

(* The peer objects: two of them share an ip, one is not sharable *)
PeerObjs ==
    {Peer(1, 1, "i1", 1, TRUE),
     Peer(2, 2, "i2", 1, TRUE),
     Peer(3, 3, "i2", 2, FALSE)}

PeerIds == {p.id : p \in PeerObjs}

Ips == {p.ip : p \in PeerObjs}

Tasks == {"t1", "t2"}

IdleTask ==
    [op |-> "none", pc |-> "idle", peer_id |-> 0, notify |-> FALSE, peer |-> NoPeer,
     todo |-> {}, cur |-> NoPeer, failed |-> FALSE]

NoStoredPeers == [ip \in {} |-> 0]

NoSharedPeers == [a \in {} |-> "In"]

(* The registry as PeerList::new leaves it, with no call in progress *)
PeersIdle ==
    /\ peers = [id \in {} |-> NoPeer]
    /\ cache = NoStoredPeers
    /\ shared_peers = [p \in PeerObjs |-> NoSharedPeers]
    /\ peers_lock = "free"
    /\ shared_locks = {}
    /\ tasks = [t \in Tasks |-> IdleTask]
    /\ peer_disconnect_channel = TRUE
    /\ exited = {}
    /\ max_peers = MaxPeers

----------------------------------------------------------------------------
(* The state machine *)

BC == Chain(blocks, height, supply, top_hash, difficulty, mempool, accounts, broadcasts)

SetChain(bc) ==
    /\ blocks' = bc.blocks
    /\ height' = bc.height
    /\ supply' = bc.supply
    /\ top_hash' = bc.top_hash
    /\ difficulty' = bc.difficulty
    /\ mempool' = bc.mempool
    /\ accounts' = bc.accounts
    /\ broadcasts' = bc.broadcasts

Result(op, r) == [op |-> op, err |-> r.err, ovf |-> r.ovf]

(* The outcomes of a call over the two builds: they differ only when a    *)
(* u64 operation overflows                                                 *)
Outcomes(unchecked, checked) ==
    IF unchecked.ovf THEN {unchecked, checked} ELSE {unchecked}

Running == last.err # "Panic"

Init ==
    /\ \E bc \in {EmptyChain, GenesisChain} :
        /\ blocks = bc.blocks
        /\ height = bc.height
        /\ supply = bc.supply
        /\ top_hash = bc.top_hash
        /\ difficulty = bc.difficulty
        /\ mempool = bc.mempool
        /\ accounts = bc.accounts
        /\ broadcasts = bc.broadcasts
    /\ now = 0
    /\ inflight = {}
    /\ last = [op |-> "new", err |-> "Ok", ovf |-> FALSE]
    /\ PeersIdle

(* A call of add_new_block with a block of the family cands *)
SubmitBlock(cands, cap) ==
    /\ Running
    /\ height < cap
    /\ \E block \in cands :
        \E r \in Outcomes(add_new_block(BC, block, now, FALSE),
                          add_new_block(BC, block, now, TRUE)) :
            /\ SetChain(r.chain)
            /\ last' = Result("add_new_block", r)
    /\ UNCHANGED <<now, inflight, peerVars>>

AddNewBlock == SubmitBlock(CandidateBlocks(BC, now), MaxHeight)

AddTxToMempool ==
    /\ Running
    /\ Cardinality(mempool) < MaxMempool
    /\ \E tx \in TxUniverse :
        LET r == add_tx_to_mempool(BC, tx)
        IN  /\ SetChain(r.chain)
            /\ last' = [op |-> "add_tx_to_mempool", err |-> r.err, ovf |-> FALSE]
    /\ UNCHANGED <<now, inflight, peerVars>>

MineBlock ==
    /\ Running
    /\ height < MaxHeight
    /\ \E key \in Keys, txs \in SortedViews(mempool) :
        \E r \in Outcomes(mine_block(BC, key, now, txs, FALSE),
                          mine_block(BC, key, now, txs, TRUE)) :
            /\ SetChain(r.chain)
            /\ last' = Result("mine_block", r)
    /\ UNCHANGED <<now, inflight, peerVars>>

Tick ==
    /\ now < MaxTime
    /\ now' = now + 1
    /\ UNCHANGED <<chainVars, inflight, last, peerVars>>

Next == AddNewBlock \/ AddTxToMempool \/ MineBlock \/ Tick

Spec == Init /\ [][Next]_vars

----------------------------------------------------------------------------
(* Long chains of blocks without transactions: the header checks and the  *)
(* difficulty retarget                                                     *)

AddHeaderBlock == SubmitBlock(HeaderCandidates(BC, now), MaxHeaderHeight)

NextHeaders == AddHeaderBlock \/ Tick

SpecHeaders == Init /\ [][NextHeaders]_vars

----------------------------------------------------------------------------
(* Concurrent writers.  add_new_block takes &mut self: a writer that has   *)
(* built a block waits for the exclusive reference, and the call then runs *)
(* from its first line to its return with no other writer in between.      *)

(* A writer builds a block on the tip it sees and submits it *)
Submit ==
    /\ Running
    /\ height < MaxHeight
    /\ Cardinality(inflight) < MaxInflight
    /\ \E key \in {DEV_ADDRESS, "a"}, txs \in SortedViews(mempool) :
        LET b == build_complete_block_from_block(BC,
                     Mined(get_block_template(BC, key, now, txs), difficulty, now))
        IN  /\ b.err = "Ok"
            /\ b.block \notin inflight
            /\ inflight' = inflight \cup {b.block}
    /\ UNCHANGED <<chainVars, now, last, peerVars>>

(* A pending call gets the exclusive reference and runs *)
Process ==
    /\ Running
    /\ \E block \in inflight :
        \E r \in Outcomes(add_new_block(BC, block, now, FALSE),
                          add_new_block(BC, block, now, TRUE)) :
            /\ SetChain(r.chain)
            /\ last' = Result("add_new_block", r)
            /\ inflight' = inflight \ {block}
    /\ UNCHANGED <<now, peerVars>>

AddCoreTx ==
    /\ Running
    /\ Cardinality(mempool) < MaxMempool
    /\ \E tx \in CoreTxs :
        LET r == add_tx_to_mempool(BC, tx)
        IN  /\ SetChain(r.chain)
            /\ last' = [op |-> "add_tx_to_mempool", err |-> r.err, ovf |-> FALSE]
    /\ UNCHANGED <<now, inflight, peerVars>>

NextConc == Submit \/ Process \/ AddCoreTx \/ Tick

SpecConc == Init /\ [][NextConc]_vars

----------------------------------------------------------------------------
(* The reward curve on its own: the supply is drawn from 0..MAX_SUPPLY and *)
(* get_block_reward is applied to it; last.value is what it returned       *)

InitReward ==
    /\ blocks = EmptyChain.blocks
    /\ height = EmptyChain.height
    /\ supply \in 0..MAX_SUPPLY
    /\ top_hash = EmptyChain.top_hash
    /\ difficulty = EmptyChain.difficulty
    /\ mempool = EmptyChain.mempool
    /\ accounts = EmptyChain.accounts
    /\ broadcasts = EmptyChain.broadcasts
    /\ now = 0
    /\ inflight = {}
    /\ last = [op |-> "new", err |-> "Ok", ovf |-> FALSE]
    /\ PeersIdle

GetBlockReward ==
    /\ last.op = "new"
    /\ last' = [op |-> "get_block_reward", err |-> "Ok", ovf |-> FALSE,
                value |-> get_block_reward(supply)]
    /\ UNCHANGED <<chainVars, now, inflight, peerVars>>

NextReward == GetBlockReward

SpecReward == InitReward /\ [][NextReward]_vars

----------------------------------------------------------------------------
(* Quantities of the applied chain *)

AddOps == {"add_new_block", "mine_block"}

RECURSIVE SumBalances(_, _)
SumBalances(accts, ks) ==
    IF ks = {} THEN 0
    ELSE LET k == CHOOSE x \in ks : TRUE
         IN  accts[k].balance + SumBalances(accts, ks \ {k})

RECURSIVE SumRewards(_)
SumRewards(bl) ==
    IF bl = <<>> THEN 0 ELSE Head(bl).miner_tx.block_reward + SumRewards(Tail(bl))

(* The positions <<i, j>> of the applied transactions *)
AppliedAt ==
    UNION {{<<i, j>> : j \in 1..Len(blocks[i].transactions)} : i \in 1..Len(blocks)}

AppliedTx(p) == blocks[p[1]].transactions[p[2]]

NoBurnApplied == \A p \in AppliedAt : AppliedTx(p).kind # "Burn"

(* Number of Normal and Burn transactions of sender k in the list txs *)
DebitsIn(txs, k) ==
    Cardinality({j \in 1..Len(txs) : txs[j].sender = k /\ txs[j].kind \in {"Normal", "Burn"}})

RegistersIn(txs, k) ==
    \E j \in 1..Len(txs) : txs[j].sender = k /\ txs[j].kind = "Registration"

(* The calls of add_new_block the environment may make in this state, and *)
(* what each returns                                                       *)
Submissions == IF Running /\ height < MaxHeight THEN CandidateBlocks(BC, now) ELSE {}

HeaderSubmissions ==
    IF Running /\ height < MaxHeaderHeight THEN HeaderCandidates(BC, now) ELSE {}

AddResults(block) ==
    Outcomes(add_new_block(BC, block, now, FALSE), add_new_block(BC, block, now, TRUE))

----------------------------------------------------------------------------
(* Chain length and heights *)

(* C1: height equals the number of stored blocks, the block at index i    *)
(* has height i, and every add_new_block call that returns Ok appends the *)
(* submitted block and raises height by exactly one.                      *)
C1_HeightIsBlockCount ==
    /\ height = Len(blocks)
    /\ \A i \in 1..Len(blocks) : blocks[i].height = i - 1
    /\ \A block \in Submissions : \A r \in AddResults(block) :
          r.err = "Ok" => /\ r.chain.height = height + 1
                          /\ r.chain.blocks = Append(blocks, block)

C1_Witness ==
    /\ height = MaxHeight
    /\ Len(blocks) = MaxHeight
    /\ last.op = "add_new_block"
    /\ last.err = "Ok"

----------------------------------------------------------------------------
(* Supply and balances *)

C3_NoNonceReuse ==
    \A p, q \in AppliedAt :
        (/\ p # q
         /\ AppliedTx(p).kind = "Normal"
         /\ AppliedTx(q).kind = "Normal"
         /\ AppliedTx(p).sender = AppliedTx(q).sender)
        => AppliedTx(p).nonce # AppliedTx(q).nonce

(* C4: the execution that follows a passed validation neither fails nor   *)
(* takes a balance below zero: no call ends in a panic or with a wrapped  *)
(* balance.                                                               *)
C4_ExecutionNeverFails ==
    last.op \in AddOps => (last.err # "Panic" /\ ~last.ovf)

----------------------------------------------------------------------------
(* Rejected blocks *)

(* C5: a call of add_new_block (directly or through mine_block) that      *)
(* returns an error leaves every field of the chain as it was, the        *)
(* mempool and the broadcast count included.                              *)
C5_ErrorLeavesStateUnchanged ==
    [][(last'.op \in AddOps /\ last'.err \notin {"Ok", "Panic"}) => UNCHANGED chainVars]_vars

C5_Witness ==
    /\ last.op = "add_new_block"
    /\ last.err = "InvalidBlockReward"
    /\ mempool # {}
    /\ height >= 2

----------------------------------------------------------------------------
(* Blocks in flight *)

----------------------------------------------------------------------------
(* Nonces *)

(* C7: an accepted block raises the nonce of every account that existed   *)
(* before it by the number of Normal and Burn transactions the account    *)
(* sent in the block (the Coinbase never counts), an account that the     *)
(* block registers starts at balance 0 and nonce 0, and no other account  *)
(* appears.                                                               *)
C7_NonceAccounting ==
    \A block \in Submissions : \A r \in AddResults(block) :
        r.err = "Ok" =>
            \A k \in Keys :
                IF has_account(accounts, k)
                THEN /\ has_account(r.chain.accounts, k)
                     /\ r.chain.accounts[k].nonce
                            = accounts[k].nonce + DebitsIn(block.transactions, k)
                ELSE IF RegistersIn(block.transactions, k)
                THEN /\ has_account(r.chain.accounts, k)
                     /\ r.chain.accounts[k] = Account(0, 0)
                ELSE ~has_account(r.chain.accounts, k)

C7_Witness ==
    /\ last.op = "add_new_block"
    /\ last.err = "Ok"
    /\ has_account(accounts, "a")
    /\ accounts["a"].nonce = 0
    /\ accounts[DEV_ADDRESS].nonce = 2
    /\ blocks[Len(blocks)].miner_tx.sender = DEV_ADDRESS

----------------------------------------------------------------------------
(* Headers *)

(* C8: every block above the genesis block names the hash of the block    *)
(* below it and carries a timestamp that is not less than that block's,   *)
(* no stored timestamp is ahead of the clock, and an accepted block has   *)
(* the height and the difficulty of the chain at the time it is accepted  *)
(* and a proof of work that meets this difficulty.                        *)
C8_HeaderChecks ==
    /\ \A i \in 2..Len(blocks) :
          /\ blocks[i].previous_hash = BlockHash(blocks[i - 1])
          /\ blocks[i].timestamp >= blocks[i - 1].timestamp
    /\ \A i \in 1..Len(blocks) : blocks[i].timestamp <= now
    /\ \A block \in HeaderSubmissions : \A r \in AddResults(block) :
          r.err = "Ok" =>
              /\ block.height = height
              /\ block.difficulty = difficulty
              /\ check_difficulty(BlockHash(block), difficulty)
              /\ block.timestamp <= now
              /\ height > 0 =>
                    /\ block.previous_hash = BlockHash(blocks[height])
                    /\ block.timestamp >= blocks[height].timestamp

C8_Witness ==
    /\ height >= 5
    /\ difficulty > MINIMUM_DIFFICULTY
    /\ last.op = "add_new_block"
    /\ last.err = "Ok"
    /\ blocks[height].timestamp > blocks[height - 1].timestamp

----------------------------------------------------------------------------
(* Transaction hashes *)

(* C9: in every applied block the hash list and the transaction list have *)
(* the same length and the hash at each position is the hash of the       *)
(* transaction at that position.                                          *)
C9_HashesInOrder ==
    \A i \in 1..Len(blocks) :
        /\ Len(blocks[i].txs_hashes) = Len(blocks[i].transactions)
        /\ \A j \in 1..Len(blocks[i].transactions) :
              blocks[i].txs_hashes[j] = TxHash(blocks[i].transactions[j])

----------------------------------------------------------------------------
(* Miner transaction *)

(* C10: the miner transaction of every applied block is a Coinbase with   *)
(* fee 0 and no signature whose fee_reward is the sum of the fees of the  *)
(* block's transactions and whose miner is registered, and an accepted    *)
(* block also carries the block_reward computed from the supply at the    *)
(* time it is accepted and names a miner registered before the block.     *)
C10_MinerTxChecks ==
    /\ \A i \in 1..Len(blocks) :
          /\ is_coinbase(blocks[i].miner_tx)
          /\ blocks[i].miner_tx.fee = 0
          /\ ~has_signature(blocks[i].miner_tx)
          /\ blocks[i].miner_tx.fee_reward = SumFees(blocks[i].transactions)
          /\ has_account(accounts, blocks[i].miner_tx.sender)
    /\ \A block \in Submissions : \A r \in AddResults(block) :
          r.err \in {"Ok", "Panic"} =>
              /\ is_coinbase(block.miner_tx)
              /\ block.miner_tx.fee = 0
              /\ ~has_signature(block.miner_tx)
              /\ block.miner_tx.block_reward = get_block_reward(supply)
              /\ block.miner_tx.fee_reward = SumFees(block.transactions)
              /\ has_account(accounts, block.miner_tx.sender)

C10_Witness ==
    /\ last.op = "add_new_block"
    /\ last.err = "Ok"
    /\ height >= 2
    /\ blocks[height].miner_tx.fee_reward = 2 * FEE_PER_KB
    /\ blocks[height].miner_tx.block_reward = get_block_reward(SumRewards(SubSeq(blocks, 1, height - 1)))

----------------------------------------------------------------------------
(* Transaction verification *)

RegistrationTxs == {tx \in TxUniverse : is_registration(tx)}

(* C11 as stated: with the nonce check enabled, a Registration is         *)
(* accepted exactly when its sender has no account and its hash meets     *)
(* REGISTRATION_DIFFICULTY.                                               *)
C11_RegistrationAsStated ==
    \A tx \in RegistrationTxs :
        verify_transaction_with_hash(accounts, tx, TxHash(tx), FALSE) = "Ok"
            <=> (/\ ~has_account(accounts, tx.sender)
                 /\ check_difficulty(TxHash(tx), REGISTRATION_DIFFICULTY))

(* C11 amended: with the nonce check enabled, a Registration is accepted  *)
(* exactly when its fee is zero, its sender has no account and its hash   *)
(* meets REGISTRATION_DIFFICULTY.                                         *)
C11_RegistrationAccepted ==
    \A tx \in RegistrationTxs :
        verify_transaction_with_hash(accounts, tx, TxHash(tx), FALSE) = "Ok"
            <=> (/\ tx.fee = 0
                 /\ ~has_account(accounts, tx.sender)
                 /\ check_difficulty(TxHash(tx), REGISTRATION_DIFFICULTY))

C11_Witness ==
    /\ last.op = "add_tx_to_mempool"
    /\ last.err = "Ok"
    /\ mempool = {RegistrationTx("a", REGISTRATION_DIFFICULTY, 0)}
    /\ ~has_account(accounts, "a")
    /\ has_account(accounts, DEV_ADDRESS)

(* The burnt amounts of a transaction list *)
RECURSIVE SumBurns(_)
SumBurns(txs) ==
    IF txs = <<>> THEN 0
    ELSE (IF Head(txs).kind = "Burn" THEN Head(txs).amount ELSE 0) + SumBurns(Tail(txs))

(* C12: no Coinbase is ever in the mempool or in the transaction list of  *)
(* an applied block, add_tx_to_mempool and add_new_block accept none, and *)
(* the miner transaction is executed exactly once per accepted block: the *)
(* balances grow by its block_reward, less what the block burns.          *)
C12_CoinbaseOnlyAsMinerTx ==
    /\ \A tx \in mempool : ~is_coinbase(tx)
    /\ \A p \in AppliedAt : ~is_coinbase(AppliedTx(p))
    /\ \A i \in 1..Len(blocks) : is_coinbase(blocks[i].miner_tx)
    /\ \A tx \in TxUniverse :
          is_coinbase(tx) => add_tx_to_mempool(BC, tx).err # "Ok"
    /\ \A block \in Submissions : \A r \in AddResults(block) :
          /\ (\E j \in 1..Len(block.transactions) : is_coinbase(block.transactions[j]))
                => (r.err \notin {"Ok", "Panic"} /\ r.chain = BC)
          /\ (r.err = "Ok" /\ ~r.ovf) =>
                SumBalances(r.chain.accounts, DOMAIN r.chain.accounts)
                    = SumBalances(accounts, DOMAIN accounts)
                      + block.miner_tx.block_reward - SumBurns(block.transactions)

C12_Witness ==
    /\ last.op = "add_tx_to_mempool"
    /\ last.err = "CoinbaseTxNotAllowed"
    /\ height >= 2
    /\ mempool # {}

(* C13: add_tx_to_mempool adds the transaction only when its hash is not  *)
(* in the mempool and the verification with the nonce check accepts it;   *)
(* a transaction already in the mempool gets TxAlreadyInMempool; a        *)
(* rejected call leaves the mempool and the chain as they were.           *)
C13_MempoolAdmission ==
    \A tx \in TxUniverse :
        LET r == add_tx_to_mempool(BC, tx)
        IN  /\ r.err = "Ok" =>
                  /\ ~contains_tx(mempool, TxHash(tx))
                  /\ verify_transaction_with_hash(accounts, tx, TxHash(tx), FALSE) = "Ok"
                  /\ r.chain = [BC EXCEPT !.mempool = mempool \cup {tx}]
            /\ contains_tx(mempool, TxHash(tx)) => r.err = "TxAlreadyInMempool"
            /\ r.err # "Ok" => r.chain = BC

C13_Witness ==
    /\ last.op = "add_tx_to_mempool"
    /\ last.err = "TxAlreadyInMempool"
    /\ Cardinality(mempool) = 1

----------------------------------------------------------------------------
(* Reward curve *)

(* C14 as stated: over 0..MAX_SUPPLY the reward does not grow with the    *)
(* supply and is zero only at MAX_SUPPLY.                                 *)
C14_RewardAsStated ==
    last.op = "get_block_reward" =>
        /\ supply < MAX_SUPPLY => get_block_reward(supply + 1) <= last.value
        /\ last.value = 0 => supply = MAX_SUPPLY

(* C14 amended: over 0..MAX_SUPPLY the reward does not grow with the      *)
(* supply and is zero exactly when less than 2^EMISSION_SPEED_FACTOR of   *)
(* the supply is left, MAX_SUPPLY included.                               *)
C14_RewardCurve ==
    last.op = "get_block_reward" =>
        /\ last.value = (MAX_SUPPLY - supply) \div Pow2(EMISSION_SPEED_FACTOR)
        /\ supply < MAX_SUPPLY => get_block_reward(supply + 1) <= last.value
        /\ last.value = 0 <=> MAX_SUPPLY - supply < Pow2(EMISSION_SPEED_FACTOR)
        /\ supply = MAX_SUPPLY => last.value = 0

C14_Witness ==
    /\ last.op = "get_block_reward"
    /\ last.value = 0
    /\ supply < MAX_SUPPLY

----------------------------------------------------------------------------
(* The peer registry: the stored peer list *)

None == <<>>

Some(v) == <<v>>

(* StoredPeer::new, at time t *)
NewStoredPeer(local_port, state, t) ==
    [first_seen |-> t, last_seen |-> t, last_connection_try |-> 0, fail_count |-> 0,
     local_port |-> local_port, temp_ban_until |-> None, state |-> state]

has_peer_stored(c, ip) == ip \in DOMAIN c

set_stored_peer(c, ip, stored_peer) ==
    [x \in DOMAIN c \cup {ip} |-> IF x = ip THEN stored_peer ELSE c[x]]

remove_stored_peer(c, ip) == [x \in DOMAIN c \ {ip} |-> c[x]]

update_peer(c, peer, t) ==
    IF has_peer_stored(c, peer.ip)
    THEN set_stored_peer(c, peer.ip,
             [c[peer.ip] EXCEPT !.fail_count = 0, !.last_seen = t,
                                !.local_port = peer.local_port])
    ELSE set_stored_peer(c, peer.ip, NewStoredPeer(peer.local_port, "Graylist", t))

----------------------------------------------------------------------------
(* The peer registry: the live map.  A call runs as a task; its steps are  *)
(* the stretches of code between two suspension points.                    *)

MapWithout(m, a) == [x \in DOMAIN m \ {a} |-> m[x]]

MapOf(a, dirs) == {NoSharedPeers} \cup {[x \in {a} |-> d] : d \in dirs}

PeerOf(o) == CHOOSE p \in PeerObjs : p.obj = o

(* The shared-peers maps the peers may have when the calls start *)
SharedInits ==
    {[p \in PeerObjs |-> CASE p.obj = 1 -> m1 [] p.obj = 2 -> m2 [] OTHER -> m3] :
        m1 \in MapOf(get_outgoing_address(PeerOf(2)), {"In"}) \ {NoSharedPeers},
        m2 \in MapOf(get_outgoing_address(PeerOf(1)), {"In", "Out"}) \ {NoSharedPeers},
        m3 \in {[a \in {get_outgoing_address(PeerOf(1)), get_outgoing_address(PeerOf(2))} |->
                    IF a = get_outgoing_address(PeerOf(1)) THEN "Both" ELSE "Out"]}}

Busy(t) == tasks[t].pc # "idle"

(* The return of the call of task t: the task is idle again and last     *)
(* holds the call and its result                                          *)
Finish(t, result) ==
    /\ tasks' = [tasks EXCEPT ![t] = IdleTask]
    /\ last' = [op |-> tasks[t].op, err |-> result, ovf |-> FALSE]

InitPeers ==
    /\ blocks = EmptyChain.blocks
    /\ height = EmptyChain.height
    /\ supply = EmptyChain.supply
    /\ top_hash = EmptyChain.top_hash
    /\ difficulty = EmptyChain.difficulty
    /\ mempool = EmptyChain.mempool
    /\ accounts = EmptyChain.accounts
    /\ broadcasts = EmptyChain.broadcasts
    /\ now = 0
    /\ inflight = {}
    /\ last = [op |-> "new", err |-> "Ok", ovf |-> FALSE]
    /\ peers = [id \in {} |-> NoPeer]
    /\ cache = NoStoredPeers
    /\ shared_peers \in SharedInits
    /\ peers_lock = "free"
    /\ shared_locks = {}
    /\ tasks = [t \in Tasks |-> IdleTask]
    /\ peer_disconnect_channel \in BOOLEAN
    /\ exited = {}
    /\ max_peers \in {MaxPeers - 1, MaxPeers}

(* add_peer: self.peers.write().await *)
AddPeerLock(t, peer) ==
    /\ ~Busy(t)
    /\ peers_lock = "free"
    /\ peers_lock' = t
    /\ tasks' = [tasks EXCEPT ![t] = [IdleTask EXCEPT !.op = "add_peer", !.pc = "add_locked",
                                                      !.peer_id = peer.id, !.peer = peer]]
    /\ UNCHANGED <<peers, cache, shared_peers, shared_locks, peer_disconnect_channel, exited, max_peers>>
    /\ UNCHANGED <<chainVars, now, inflight, last>>

(* Variant: the block of add_peer without the size test *)
AddPeerInsertNoSizeTest(t) ==
    /\ tasks[t].pc = "add_locked"
    /\ peers_lock = t
    /\ peers_lock' = "free"
    /\ IF tasks[t].peer_id \in DOMAIN peers
       THEN Finish(t, "PeerIdAlreadyUsed") /\ peers' = peers
       ELSE /\ peers' = [id \in DOMAIN peers \cup {tasks[t].peer_id} |->
                            IF id = tasks[t].peer_id THEN tasks[t].peer ELSE peers[id]]
            /\ tasks' = [tasks EXCEPT ![t].pc = "update"]
            /\ last' = last
    /\ UNCHANGED <<cache, shared_peers, shared_locks, peer_disconnect_channel, exited, max_peers>>
    /\ UNCHANGED <<chainVars, now, inflight>>

(* add_peer: the block under the write lock *)
AddPeerInsert(t) ==
    /\ tasks[t].pc = "add_locked"
    /\ peers_lock = t
    /\ peers_lock' = "free"
    /\ IF Cardinality(DOMAIN peers) >= max_peers
       THEN Finish(t, "PeerListFull") /\ peers' = peers
       ELSE IF tasks[t].peer_id \in DOMAIN peers
       THEN Finish(t, "PeerIdAlreadyUsed") /\ peers' = peers
       ELSE /\ peers' = [id \in DOMAIN peers \cup {tasks[t].peer_id} |->
                            IF id = tasks[t].peer_id THEN tasks[t].peer ELSE peers[id]]
            /\ tasks' = [tasks EXCEPT ![t].pc = "update"]
            /\ last' = last
    /\ UNCHANGED <<cache, shared_peers, shared_locks, peer_disconnect_channel, exited, max_peers>>
    /\ UNCHANGED <<chainVars, now, inflight>>

(* add_peer: self.update_peer(&peer).await *)
AddPeerUpdate(t) ==
    /\ tasks[t].pc = "update"
    /\ cache' = update_peer(cache, tasks[t].peer, now)
    /\ Finish(t, "Ok")
    /\ UNCHANGED <<peers, shared_peers, peers_lock, shared_locks, peer_disconnect_channel, exited, max_peers>>
    /\ UNCHANGED <<chainVars, now, inflight>>

(* remove_peer: self.peers.write().await *)
RemovePeerLock(t, peer_id, notify) ==
    /\ ~Busy(t)
    /\ peers_lock = "free"
    /\ peers_lock' = t
    /\ tasks' = [tasks EXCEPT ![t] = [IdleTask EXCEPT !.op = "remove_peer", !.pc = "remove_locked",
                                                      !.peer_id = peer_id, !.notify = notify]]
    /\ UNCHANGED <<peers, cache, shared_peers, shared_locks, peer_disconnect_channel, exited, max_peers>>
    /\ UNCHANGED <<chainVars, now, inflight, last>>

(* Variant: the fan-out sends whatever the direction of the entry *)
NotifiesAnyDirection(p, addr) == addr \in DOMAIN shared_peers[p]

(* Variant: the block of remove_peer that keeps the write lock for the    *)
(* rest of the call                                                       *)
RemovePeerTakeKeepingLock(t) ==
    /\ tasks[t].pc = "remove_locked"
    /\ peers_lock = t
    /\ IF tasks[t].peer_id \notin DOMAIN peers
       THEN Finish(t, "PeerNotFoundById") /\ peers' = peers /\ peers_lock' = "free"
       ELSE LET peer == peers[tasks[t].peer_id]
                rest == [id \in DOMAIN peers \ {tasks[t].peer_id} |-> peers[id]]
            IN  /\ peers' = rest
                /\ peers_lock' = t
                /\ tasks' = [tasks EXCEPT
                       ![t].peer = peer,
                       ![t].peer_id = 0,
                       ![t].notify = FALSE,
                       ![t].todo = IF tasks[t].notify /\ peer.sharable
                                   THEN {rest[id] : id \in DOMAIN rest} ELSE {},
                       ![t].pc = IF tasks[t].notify /\ peer.sharable /\ DOMAIN rest # {}
                                 THEN "fanout" ELSE "channel"]
                /\ last' = last
    /\ UNCHANGED <<cache, shared_peers, shared_locks, peer_disconnect_channel, exited, max_peers>>
    /\ UNCHANGED <<chainVars, now, inflight>>

(* Variant: the block of remove_peer that looks the peer up and leaves it *)
(* in the live map                                                        *)
RemovePeerTakeByGet(t) ==
    /\ tasks[t].pc = "remove_locked"
    /\ peers_lock = t
    /\ peers_lock' = "free"
    /\ IF tasks[t].peer_id \notin DOMAIN peers
       THEN Finish(t, "PeerNotFoundById") /\ peers' = peers
       ELSE LET peer == peers[tasks[t].peer_id]
                rest == [id \in DOMAIN peers \ {tasks[t].peer_id} |-> peers[id]]
            IN  /\ peers' = peers
                /\ tasks' = [tasks EXCEPT
                       ![t].peer = peer,
                       ![t].peer_id = 0,
                       ![t].notify = FALSE,
                       ![t].todo = IF tasks[t].notify /\ peer.sharable
                                   THEN {rest[id] : id \in DOMAIN rest} ELSE {},
                       ![t].pc = IF tasks[t].notify /\ peer.sharable /\ DOMAIN rest # {}
                                 THEN "fanout" ELSE "channel"]
                /\ last' = last
    /\ UNCHANGED <<cache, shared_peers, shared_locks, peer_disconnect_channel, exited, max_peers>>
    /\ UNCHANGED <<chainVars, now, inflight>>

(* Whether the fan-out sends to p for the removed address addr *)
Notifies(p, addr) == addr \in DOMAIN shared_peers[p] /\ shared_peers[p][addr] # "In"

(* remove_peer: the block under the write lock, the removal and the snapshot *)
RemovePeerTake(t) ==
    /\ tasks[t].pc = "remove_locked"
    /\ peers_lock = t
    /\ peers_lock' = "free"
    /\ IF tasks[t].peer_id \notin DOMAIN peers
       THEN Finish(t, "PeerNotFoundById") /\ peers' = peers
       ELSE LET peer == peers[tasks[t].peer_id]
                rest == [id \in DOMAIN peers \ {tasks[t].peer_id} |-> peers[id]]
            IN  /\ peers' = rest
                /\ tasks' = [tasks EXCEPT
                       ![t].peer = peer,
                       ![t].peer_id = 0,
                       ![t].notify = FALSE,
                       ![t].todo = IF tasks[t].notify /\ peer.sharable
                                   THEN {rest[id] : id \in DOMAIN rest} ELSE {},
                       ![t].pc = IF tasks[t].notify /\ peer.sharable /\ DOMAIN rest # {}
                                 THEN "fanout" ELSE "channel"]
                /\ last' = last
    /\ UNCHANGED <<cache, shared_peers, shared_locks, peer_disconnect_channel, exited, max_peers>>
    /\ UNCHANGED <<chainVars, now, inflight>>

(* The loop goes on while the snapshot has peers left *)
AfterVisit(todo) == IF todo = {} THEN "channel" ELSE "fanout"

(* remove_peer: one turn of the loop up to its next suspension.  The task  *)
(* gets the shared-peers lock of the next peer p of the snapshot; where    *)
(* nothing is to be sent the turn ends and the lock is dropped, otherwise  *)
(* the task is suspended in peer.send_bytes with the lock held             *)
FanoutLock(t) ==
    /\ tasks[t].pc = "fanout"
    /\ \E p \in tasks[t].todo :
          /\ p \notin shared_locks
          /\ IF Notifies(p, get_outgoing_address(tasks[t].peer))
             THEN /\ shared_locks' = shared_locks \cup {p}
                  /\ tasks' = [tasks EXCEPT ![t].cur = p, ![t].todo = tasks[t].todo \ {p},
                                            ![t].pc = "sending"]
             ELSE /\ shared_locks' = shared_locks
                  /\ tasks' = [tasks EXCEPT ![t].todo = tasks[t].todo \ {p},
                                            ![t].pc = AfterVisit(tasks[t].todo \ {p})]
    /\ UNCHANGED <<peers, cache, shared_peers, peers_lock, peer_disconnect_channel, exited, max_peers>>
    /\ UNCHANGED <<chainVars, now, inflight, last>>

(* Variant: a failed send_bytes ends the call with the error *)
FanoutNotifyAbortOnError(t, sent) ==
    /\ tasks[t].pc = "sending"
    /\ LET p == tasks[t].cur
           addr == get_outgoing_address(tasks[t].peer)
       IN  IF sent
           THEN /\ shared_peers' = [shared_peers EXCEPT ![p] = MapWithout(shared_peers[p], addr)]
                /\ tasks' = [tasks EXCEPT ![t].cur = NoPeer,
                                          ![t].pc = AfterVisit(tasks[t].todo)]
                /\ shared_locks' = shared_locks \ {p}
                /\ last' = last
           ELSE /\ shared_peers' = shared_peers
                /\ shared_locks' = shared_locks \ {p}
                /\ Finish(t, "SendError")
    /\ UNCHANGED <<peers, cache, peers_lock, peer_disconnect_channel, exited, max_peers>>
    /\ UNCHANGED <<chainVars, now, inflight>>

(* remove_peer: send_bytes returns, Ok when sent; the entry is removed and *)
(* the lock dropped at the end of the turn                                 *)
FanoutNotify(t, sent) ==
    /\ tasks[t].pc = "sending"
    /\ LET p == tasks[t].cur
           addr == get_outgoing_address(tasks[t].peer)
       IN  /\ shared_peers' = [shared_peers EXCEPT ![p] = MapWithout(shared_peers[p], addr)]
           /\ tasks' = [tasks EXCEPT ![t].failed = tasks[t].failed \/ ~sent,
                                     ![t].cur = NoPeer,
                                     ![t].pc = AfterVisit(tasks[t].todo)]
           /\ shared_locks' = shared_locks \ {p}
    /\ UNCHANGED <<peers, cache, peers_lock, peer_disconnect_channel, exited, max_peers>>
    /\ UNCHANGED <<chainVars, now, inflight, last>>

(* remove_peer: peer_disconnect_channel.send(peer).await, whatever it      *)
(* returns, and the return of Ok; offered tells whether the peer was       *)
(* handed to the channel                                                   *)
ChannelSend(t) ==
    /\ tasks[t].pc = "channel"
    /\ tasks' = [tasks EXCEPT ![t] = IdleTask]
    /\ last' = [op |-> "remove_peer", err |-> "Ok", ovf |-> FALSE,
                offered |-> peer_disconnect_channel, failed |-> tasks[t].failed]
    /\ UNCHANGED <<peers, cache, shared_peers, peers_lock, shared_locks,
                   peer_disconnect_channel, exited, max_peers>>
    /\ UNCHANGED <<chainVars, now, inflight>>

AddPeer ==
    \E t \in Tasks :
        \/ \E peer \in PeerObjs : AddPeerLock(t, peer)
        \/ AddPeerInsert(t)
        \/ AddPeerUpdate(t)

RemovePeer ==
    \E t \in Tasks :
        \/ \E peer_id \in PeerIds, notify \in BOOLEAN : RemovePeerLock(t, peer_id, notify)
        \/ RemovePeerTake(t)
        \/ FanoutLock(t)
        \/ \E sent \in BOOLEAN : FanoutNotify(t, sent)
        \/ ChannelSend(t)

NextPeers == AddPeer \/ RemovePeer

SpecPeers == InitPeers /\ [][NextPeers]_vars

----------------------------------------------------------------------------
(* The live map under concurrent calls *)

(* The step of task t that leaves the program counter pc *)
Leaves(t, pc) == tasks[t].pc = pc /\ tasks'[t] # tasks[t]

(* C15: under every interleaving of add_peer and remove_peer calls that   *)
(* use the same max_peers the live map never holds more than max_peers    *)
(* entries and never two peers with one id, and an add_peer that finds    *)
(* the map full or the id in use returns PeerListFull, respectively       *)
(* PeerIdAlreadyUsed, and leaves the live map and the stored list as they *)
(* were.                                                                  *)
C15_LiveMapBounded ==
    /\ [](/\ Cardinality(DOMAIN peers) <= max_peers
          /\ \A id \in DOMAIN peers : peers[id].id = id
          /\ \A a, b \in DOMAIN peers : peers[a].id = peers[b].id => a = b)
    /\ [][\A t \in Tasks :
            Leaves(t, "add_locked") =>
                IF Cardinality(DOMAIN peers) >= max_peers
                THEN /\ last' = [op |-> "add_peer", err |-> "PeerListFull", ovf |-> FALSE]
                     /\ tasks'[t].pc = "idle"
                     /\ UNCHANGED <<peers, cache>>
                ELSE IF tasks[t].peer.id \in DOMAIN peers
                THEN /\ last' = [op |-> "add_peer", err |-> "PeerIdAlreadyUsed", ovf |-> FALSE]
                     /\ tasks'[t].pc = "idle"
                     /\ UNCHANGED <<peers, cache>>
                ELSE /\ DOMAIN peers' = DOMAIN peers \cup {tasks[t].peer.id}
                     /\ peers'[tasks[t].peer.id] = tasks[t].peer
                     /\ tasks'[t].pc = "update"]_vars

C15_Witness ==
    /\ last.op = "add_peer"
    /\ last.err = "PeerListFull"
    /\ Cardinality(DOMAIN peers) = max_peers
    /\ max_peers < Cardinality(PeerIds)
    /\ \E t \in Tasks : tasks[t].op = "remove_peer" /\ tasks[t].pc = "remove_locked"

(* C16: a remove_peer that removed a peer with outgoing address A visits  *)
(* every peer of its snapshot once when notify is set and the peer is     *)
(* sharable, and none otherwise.  A visited peer whose shared-peers map   *)
(* holds A with a direction other than In is sent one packet and loses    *)
(* the entry; a visited peer with direction In or without A is sent       *)
(* nothing and keeps its map; nothing else changes a shared-peers map.    *)
C16_FanoutTargets ==
    [][/\ \A t \in Tasks :
            /\ Leaves(t, "remove_locked") =>
                  IF tasks[t].peer_id \in DOMAIN peers
                  THEN /\ tasks'[t].peer = peers[tasks[t].peer_id]
                       /\ tasks'[t].todo =
                             IF tasks[t].notify /\ peers[tasks[t].peer_id].sharable
                             THEN {peers[id] : id \in DOMAIN peers \ {tasks[t].peer_id}}
                             ELSE {}
                       /\ tasks'[t].pc = IF tasks'[t].todo = {} THEN "channel" ELSE "fanout"
                  ELSE tasks'[t].pc = "idle"
            /\ Leaves(t, "fanout") =>
                  \E p \in tasks[t].todo :
                      LET addr == get_outgoing_address(tasks[t].peer)
                          sends == /\ addr \in DOMAIN shared_peers[p]
                                   /\ shared_peers[p][addr] # "In"
                      IN  /\ tasks'[t].todo = tasks[t].todo \ {p}
                          /\ sends => (tasks'[t].pc = "sending" /\ tasks'[t].cur = p)
                          /\ ~sends => tasks'[t].pc = (IF tasks'[t].todo = {} THEN "channel"
                                                       ELSE "fanout")
            /\ Leaves(t, "sending") =>
                  LET addr == get_outgoing_address(tasks[t].peer)
                      p == tasks[t].cur
                  IN  /\ addr \in DOMAIN shared_peers[p]
                      /\ shared_peers[p][addr] # "In"
                      /\ shared_peers' = [shared_peers EXCEPT ![p] = MapWithout(shared_peers[p], addr)]
                      /\ tasks'[t].todo = tasks[t].todo
                      /\ tasks'[t].pc = (IF tasks[t].todo = {} THEN "channel" ELSE "fanout")
       /\ shared_peers' # shared_peers => \E t \in Tasks : Leaves(t, "sending")]_vars

C16_Witness ==
    \E t \in Tasks :
        /\ tasks[t].pc = "channel"
        /\ tasks[t].peer = PeerOf(1)
        /\ DOMAIN peers = {2, 3}
        /\ get_outgoing_address(PeerOf(1)) \in DOMAIN shared_peers[PeerOf(2)]
        /\ shared_peers[PeerOf(2)][get_outgoing_address(PeerOf(1))] = "In"
        /\ get_outgoing_address(PeerOf(1)) \notin DOMAIN shared_peers[PeerOf(3)]

(* C17: no failure of a send ends a removal.  A remove_peer for an id in  *)
(* the live map takes the peer out of the map, goes through the whole     *)
(* snapshot whatever send_bytes returns, hands the peer to the disconnect *)
(* channel once, when there is one, and returns Ok.                       *)
C17_FailuresDoNotAbort ==
    [][\A t \in Tasks :
          /\ (Leaves(t, "remove_locked") /\ tasks[t].peer_id \in DOMAIN peers) =>
                /\ tasks[t].peer_id \notin DOMAIN peers'
                /\ tasks'[t].pc \in {"fanout", "channel"}
          /\ Leaves(t, "fanout") => tasks'[t].pc \in {"fanout", "sending", "channel"}
          /\ Leaves(t, "sending") =>
                /\ tasks'[t].pc = (IF tasks[t].todo = {} THEN "channel" ELSE "fanout")
                /\ tasks'[t].todo = tasks[t].todo
                /\ last' = last
          /\ Leaves(t, "channel") =>
                /\ tasks'[t].pc = "idle"
                /\ last' = [op |-> "remove_peer", err |-> "Ok", ovf |-> FALSE,
                            offered |-> peer_disconnect_channel,
                            failed |-> tasks[t].failed]]_vars

C17_Witness ==
    /\ last.op = "remove_peer"
    /\ last.err = "Ok"
    /\ last.failed
    /\ last.offered
    /\ \A p \in PeerObjs \ {PeerOf(1)} :
          get_outgoing_address(PeerOf(1)) \notin DOMAIN shared_peers[p]

----------------------------------------------------------------------------
(* The peer registry: the stored list.  Each call is one step.             *)

(* The live map once the peers of conn are connected *)
Connected(conn) == [id \in {p.id : p \in conn} |-> CHOOSE p \in conn : p.id = id]

(* Variant: a ban that ends at the current second counts as over *)
IsAllowedAtBanEnd(c, ip, t) ==
    IF ~has_peer_stored(c, ip)
    THEN TRUE
    ELSE /\ c[ip].state # "Blacklist"
         /\ IF c[ip].temp_ban_until = None
            THEN TRUE
            ELSE c[ip].temp_ban_until[1] <= t

is_allowed(c, ip, t) ==
    IF ~has_peer_stored(c, ip)
    THEN TRUE
    ELSE /\ c[ip].state # "Blacklist"
         /\ IF c[ip].temp_ban_until = None
            THEN TRUE
            ELSE c[ip].temp_ban_until[1] < t

(* Variant: the record is written anew whether or not one is stored *)
SetStateToAddressAnew(c, addr, state, t) ==
    set_stored_peer(c, addr, NewStoredPeer(0, state, t))

set_state_to_address(c, addr, state, t) ==
    IF has_peer_stored(c, addr)
    THEN set_stored_peer(c, addr, [c[addr] EXCEPT !.state = state])
    ELSE set_stored_peer(c, addr, NewStoredPeer(0, state, t))

temp_ban_address(c, ip, seconds, t) ==
    IF has_peer_stored(c, ip)
    THEN set_stored_peer(c, ip, [c[ip] EXCEPT !.temp_ban_until = Some(t + seconds)])
    ELSE set_stored_peer(c, ip, NewStoredPeer(0, "Graylist", t))

(* The state is set on the copy read from the cache, which is not       *)
(* written back; the record is removed when its local port is 0          *)
set_graylist_for_peer(c, ip) ==
    LET delete == IF has_peer_stored(c, ip)
                  THEN LET stored_peer == [c[ip] EXCEPT !.state = "Graylist"]
                       IN  stored_peer.local_port = 0
                  ELSE FALSE
    IN  IF delete THEN remove_stored_peer(c, ip) ELSE c

InitStore ==
    /\ blocks = EmptyChain.blocks
    /\ height = EmptyChain.height
    /\ supply = EmptyChain.supply
    /\ top_hash = EmptyChain.top_hash
    /\ difficulty = EmptyChain.difficulty
    /\ mempool = EmptyChain.mempool
    /\ accounts = EmptyChain.accounts
    /\ broadcasts = EmptyChain.broadcasts
    /\ now = 0
    /\ inflight = {}
    /\ last = [op |-> "new", err |-> "Ok", ovf |-> FALSE]
    /\ peers \in {Connected({}), Connected(PeerObjs)}
    /\ cache = NoStoredPeers
    /\ shared_peers = [p \in PeerObjs |-> NoSharedPeers]
    /\ peers_lock = "free"
    /\ shared_locks = {}
    /\ tasks = [t \in Tasks |-> IdleTask]
    /\ peer_disconnect_channel = TRUE
    /\ exited = {}
    /\ max_peers = MaxPeers

(* get_current_time_in_seconds moves on *)
ClockTick ==
    /\ now < MaxClock
    /\ now' = now + 1
    /\ UNCHANGED <<chainVars, inflight, last, peerVars>>

(* A peer connects again: update_peer *)
UpdatePeer(peer) ==
    /\ cache' = update_peer(cache, peer, now)
    /\ last' = [op |-> "update_peer", err |-> "Ok", ovf |-> FALSE, ip |-> peer.ip]
    /\ UNCHANGED <<chainVars, now, inflight>>
    /\ UNCHANGED <<peers, shared_peers, peers_lock, shared_locks, tasks,
                   peer_disconnect_channel, exited, max_peers>>

(* find returns the first peer of the map with the address, in the order  *)
(* of the hash map: any one of them                                       *)
BlacklistAddress(ip) ==
    /\ cache' = set_state_to_address(cache, ip, "Blacklist", now)
    /\ IF \E id \in DOMAIN peers : peers[id].ip = ip
       THEN \E id \in DOMAIN peers :
                /\ peers[id].ip = ip
                /\ exited' = exited \cup {peers[id]}
       ELSE exited' = exited
    /\ last' = [op |-> "blacklist_address", err |-> "Ok", ovf |-> FALSE, ip |-> ip]
    /\ UNCHANGED <<chainVars, now, inflight>>
    /\ UNCHANGED <<peers, shared_peers, peers_lock, shared_locks, tasks,
                   peer_disconnect_channel, max_peers>>

WhitelistAddress(ip) ==
    /\ cache' = set_state_to_address(cache, ip, "Whitelist", now)
    /\ last' = [op |-> "whitelist_address", err |-> "Ok", ovf |-> FALSE, ip |-> ip]
    /\ UNCHANGED <<chainVars, now, inflight>>
    /\ UNCHANGED <<peers, shared_peers, peers_lock, shared_locks, tasks,
                   peer_disconnect_channel, exited, max_peers>>

TempBanAddress(ip, seconds) ==
    /\ cache' = temp_ban_address(cache, ip, seconds, now)
    /\ last' = [op |-> "temp_ban_address", err |-> "Ok", ovf |-> FALSE, ip |-> ip,
                seconds |-> seconds, at |-> now]
    /\ UNCHANGED <<chainVars, now, inflight>>
    /\ UNCHANGED <<peers, shared_peers, peers_lock, shared_locks, tasks,
                   peer_disconnect_channel, exited, max_peers>>

SetGraylistForPeer(ip) ==
    /\ cache' = set_graylist_for_peer(cache, ip)
    /\ last' = [op |-> "set_graylist_for_peer", err |-> "Ok", ovf |-> FALSE, ip |-> ip]
    /\ UNCHANGED <<chainVars, now, inflight>>
    /\ UNCHANGED <<peers, shared_peers, peers_lock, shared_locks, tasks,
                   peer_disconnect_channel, exited, max_peers>>

IsAllowed(ip) ==
    /\ last' = [op |-> "is_allowed", err |-> "Ok", ovf |-> FALSE, ip |-> ip,
                value |-> is_allowed(cache, ip, now)]
    /\ UNCHANGED <<chainVars, now, inflight, peerVars>>

NextStore ==
    \/ ClockTick
    \/ \E peer \in PeerObjs : UpdatePeer(peer)
    \/ \E ip \in Ips : BlacklistAddress(ip)
    \/ \E ip \in Ips : WhitelistAddress(ip)
    \/ \E ip \in Ips, seconds \in 0..MaxSeconds : TempBanAddress(ip, seconds)

SpecStore == InitStore /\ [][NextStore]_vars

(* States and removal, without the clock *)
NextGraylist ==
    \/ \E peer \in PeerObjs : UpdatePeer(peer)
    \/ \E ip \in Ips : BlacklistAddress(ip)
    \/ \E ip \in Ips : WhitelistAddress(ip)
    \/ \E ip \in Ips : SetGraylistForPeer(ip)

SpecGraylist == InitStore /\ [][NextGraylist]_vars

(* States, bans and the clock, for addresses that never connected *)
NextAllowed ==
    \/ ClockTick
    \/ \E ip \in Ips : BlacklistAddress(ip)
    \/ \E ip \in Ips : WhitelistAddress(ip)
    \/ \E ip \in Ips, seconds \in 0..MaxSeconds : TempBanAddress(ip, seconds)
    \/ \E ip \in Ips : IsAllowed(ip)

SpecAllowed == InitStore /\ [][NextAllowed]_vars

----------------------------------------------------------------------------
(* The stored list: failed connections *)

(* Variant: the limit is tested on the count after the increment *)
IncreaseFailCountTestAfter(c, ip, temp_ban, t) ==
    LET stored_peer == IF has_peer_stored(c, ip) THEN c[ip]
                       ELSE NewStoredPeer(0, "Graylist", t)
        fail_count == (stored_peer.fail_count + 1) % U8_MOD
    IN  IF stored_peer.state # "Whitelist"
        THEN LET banned ==
                     IF temp_ban /\ fail_count # 0
                                 /\ fail_count % PEER_FAIL_TO_CONNECT_LIMIT = 0
                     THEN [stored_peer EXCEPT
                              !.temp_ban_until = Some(t + PEER_TEMP_BAN_TIME_ON_CONNECT)]
                     ELSE stored_peer
             IN  set_stored_peer(c, ip, [banned EXCEPT !.fail_count = fail_count])
        ELSE c

(* Variant: the count stops at the top of u8 (saturating_add) *)
IncreaseFailCountSaturating(c, ip, temp_ban, t) ==
    LET stored_peer == IF has_peer_stored(c, ip) THEN c[ip]
                       ELSE NewStoredPeer(0, "Graylist", t)
        fail_count == stored_peer.fail_count
    IN  IF stored_peer.state # "Whitelist"
        THEN LET banned ==
                     IF temp_ban /\ fail_count # 0
                                 /\ fail_count % PEER_FAIL_TO_CONNECT_LIMIT = 0
                     THEN [stored_peer EXCEPT
                              !.temp_ban_until = Some(t + PEER_TEMP_BAN_TIME_ON_CONNECT)]
                     ELSE stored_peer
             IN  set_stored_peer(c, ip, [banned EXCEPT
                     !.fail_count = IF fail_count + 1 >= U8_MOD THEN U8_MOD - 1
                                    ELSE fail_count + 1])
        ELSE c

(* Variant: the count of a Whitelist record goes up as well *)
IncreaseFailCountOfAnyState(c, ip, temp_ban, t) ==
    LET stored_peer == IF has_peer_stored(c, ip) THEN c[ip]
                       ELSE NewStoredPeer(0, "Graylist", t)
        fail_count == stored_peer.fail_count
        banned ==
            IF temp_ban /\ fail_count # 0 /\ fail_count % PEER_FAIL_TO_CONNECT_LIMIT = 0
            THEN [stored_peer EXCEPT
                     !.temp_ban_until = Some(t + PEER_TEMP_BAN_TIME_ON_CONNECT)]
            ELSE stored_peer
    IN  set_stored_peer(c, ip, [banned EXCEPT !.fail_count = (fail_count + 1) % U8_MOD])

increase_fail_count_for_stored_peer(c, ip, temp_ban, t) ==
    LET stored_peer == IF has_peer_stored(c, ip) THEN c[ip]
                       ELSE NewStoredPeer(0, "Graylist", t)
        fail_count == stored_peer.fail_count
    IN  IF stored_peer.state # "Whitelist"
        THEN LET banned ==
                     IF temp_ban /\ fail_count # 0
                                 /\ fail_count % PEER_FAIL_TO_CONNECT_LIMIT = 0
                     THEN [stored_peer EXCEPT
                              !.temp_ban_until = Some(t + PEER_TEMP_BAN_TIME_ON_CONNECT)]
                     ELSE stored_peer
             IN  set_stored_peer(c, ip, [banned EXCEPT
                                            !.fail_count = (fail_count + 1) % U8_MOD])
        ELSE c

(* A record as the first failed connection finds it: none, or a Graylist  *)
(* record without failures and without a ban                              *)
Fresh(c, ip) ==
    \/ ~has_peer_stored(c, ip)
    \/ /\ c[ip].state = "Graylist"
       /\ c[ip].fail_count = 0
       /\ c[ip].temp_ban_until = None

(* last.streak counts the calls with temp_ban set made in a row for ip    *)
(* since its record was fresh; it is 0 when the row was broken            *)
IncreaseFailCount(ip, temp_ban) ==
    /\ has_peer_stored(cache, ip) =>
          \/ cache[ip].fail_count < MaxFails
          \/ cache[ip].fail_count >= U8_MOD - MaxFails
    /\ cache' = increase_fail_count_for_stored_peer(cache, ip, temp_ban, now)
    /\ last' = [op |-> "increase_fail_count_for_stored_peer", err |-> "Ok", ovf |-> FALSE,
                ip |-> ip, temp_ban |-> temp_ban, at |-> now,
                streak |-> IF ~temp_ban THEN 0
                           ELSE IF Fresh(cache, ip) THEN 1
                           ELSE IF /\ last.op = "increase_fail_count_for_stored_peer"
                                   /\ last.ip = ip
                                   /\ last.streak > 0
                                THEN last.streak + 1
                                ELSE 0]
    /\ UNCHANGED <<chainVars, now, inflight>>
    /\ UNCHANGED <<peers, shared_peers, peers_lock, shared_locks, tasks,
                   peer_disconnect_channel, exited, max_peers>>

NextFail ==
    \/ ClockTick
    \/ UpdatePeer(PeerOf(1))
    \/ \E ip \in Ips : WhitelistAddress(ip)
    \/ \E ip \in Ips, temp_ban \in BOOLEAN : IncreaseFailCount(ip, temp_ban)

SpecFail == InitStore /\ [][NextFail]_vars

----------------------------------------------------------------------------
(* The stored list: the next address to dial.  stored_peers is the order  *)
(* in which the cache iterates over its records.                          *)

(* internal_get_peer_by_addr(..).is_none(): for a peer that was dialled   *)
(* the address of the connection is the outgoing address                  *)
NoPeerAtAddr(live, addr) ==
    \A id \in DOMAIN live :
        ~(SocketAddr(live[id].ip, live[id].local_port) = addr
          \/ get_outgoing_address(live[id]) = addr)

(* Variant: the first record that can be dialled is returned, whatever    *)
(* its state                                                              *)
FindFirstRecord(c, live, t, stored_peers) ==
    LET RECURSIVE loop(_)
        loop(i) ==
            IF i > Len(stored_peers)
            THEN [value |-> None, cache |-> c]
            ELSE LET ip == stored_peers[i]
                     stored_peer == c[ip]
                     addr == SocketAddr(ip, stored_peer.local_port)
                 IN  IF /\ stored_peer.state # "Blacklist"
                        /\ stored_peer.last_connection_try
                              + stored_peer.fail_count * P2P_EXTEND_PEERLIST_DELAY <= t
                        /\ NoPeerAtAddr(live, addr)
                     THEN [value |-> Some(addr),
                           cache |-> set_stored_peer(c, ip,
                                        [stored_peer EXCEPT !.last_connection_try = t])]
                     ELSE loop(i + 1)
    IN  loop(1)

find_peer_to_connect(c, live, t, stored_peers) ==
    LET RECURSIVE loop(_, _)
        loop(i, potential_gray_peer) ==
            IF i > Len(stored_peers)
            THEN IF potential_gray_peer = None
                 THEN [value |-> None, cache |-> c]
                 ELSE LET ip == potential_gray_peer[1][1]
                          addr == potential_gray_peer[1][2]
                      IN  [value |-> Some(addr),
                           cache |-> set_stored_peer(c, ip,
                                        [c[ip] EXCEPT !.last_connection_try = t])]
            ELSE LET ip == stored_peers[i]
                     stored_peer == c[ip]
                     addr == SocketAddr(ip, stored_peer.local_port)
                 IN  IF /\ stored_peer.state # "Blacklist"
                        /\ stored_peer.last_connection_try
                              + stored_peer.fail_count * P2P_EXTEND_PEERLIST_DELAY <= t
                        /\ NoPeerAtAddr(live, addr)
                     THEN IF potential_gray_peer = None /\ stored_peer.state = "Graylist"
                          THEN loop(i + 1, Some(<<ip, addr>>))
                          ELSE IF stored_peer.state = "Whitelist"
                          THEN [value |-> Some(addr),
                                cache |-> set_stored_peer(c, ip,
                                             [stored_peer EXCEPT !.last_connection_try = t])]
                          ELSE loop(i + 1, potential_gray_peer)
                     ELSE loop(i + 1, potential_gray_peer)
    IN  loop(1, None)

(* The stored lists the search starts from: per address no record, or one *)
(* of any state that failed at most once                                  *)
InitFind ==
    /\ blocks = EmptyChain.blocks
    /\ height = EmptyChain.height
    /\ supply = EmptyChain.supply
    /\ top_hash = EmptyChain.top_hash
    /\ difficulty = EmptyChain.difficulty
    /\ mempool = EmptyChain.mempool
    /\ accounts = EmptyChain.accounts
    /\ broadcasts = EmptyChain.broadcasts
    /\ now = 0
    /\ inflight = {}
    /\ last = [op |-> "new", err |-> "Ok", ovf |-> FALSE]
    /\ peers \in {Connected({}), Connected({PeerOf(2)})}
    /\ \E known \in SUBSET Ips :
          cache \in [known -> {[NewStoredPeer(lp, st, 0) EXCEPT !.fail_count = fc] :
                                  lp \in 1..MaxPort, st \in {"Whitelist", "Graylist", "Blacklist"},
                                  fc \in 0..MaxInitFails}]
    /\ shared_peers = [p \in PeerObjs |-> NoSharedPeers]
    /\ peers_lock = "free"
    /\ shared_locks = {}
    /\ tasks = [t \in Tasks |-> IdleTask]
    /\ peer_disconnect_channel = TRUE
    /\ exited = {}
    /\ max_peers = MaxPeers

FindPeerToConnect ==
    /\ \E stored_peers \in {sq \in [1..Cardinality(DOMAIN cache) -> DOMAIN cache] :
                               \A i, j \in DOMAIN sq : i # j => sq[i] # sq[j]} :
          LET r == find_peer_to_connect(cache, peers, now, stored_peers)
          IN  /\ cache' = r.cache
              /\ last' = [op |-> "find_peer_to_connect", err |-> "Ok", ovf |-> FALSE,
                          value |-> r.value, stored_peers |-> stored_peers, at |-> now]
    /\ UNCHANGED <<chainVars, now, inflight>>
    /\ UNCHANGED <<peers, shared_peers, peers_lock, shared_locks, tasks,
                   peer_disconnect_channel, exited, max_peers>>

SpecFind == InitFind /\ [][ClockTick \/ FindPeerToConnect]_vars

----------------------------------------------------------------------------
(* The live map: the median topoheight.  The topoheight of a peer is an    *)
(* atomic of the peer object; topoheights gives it for every live peer.    *)

TopoHeights == {0, 1, 2, U64_MOD - 1}

(* values.sort() *)
RECURSIVE SortValues(_)
SortValues(values) ==
    IF values = <<>> THEN <<>>
    ELSE LET least == CHOOSE i \in DOMAIN values : \A j \in DOMAIN values : values[i] <= values[j]
         IN  <<values[least]>>
             \o SortValues([k \in 1..(Len(values) - 1) |->
                               IF k < least THEN values[k] ELSE values[k + 1]])

(* peers.values().map(|peer| peer.get_topoheight()).collect() *)
RECURSIVE CollectValues(_, _)
CollectValues(live, topoheights) ==
    IF DOMAIN live = {} THEN <<>>
    ELSE LET id == CHOOSE x \in DOMAIN live : TRUE
         IN  <<topoheights[id]>>
             \o CollectValues([x \in DOMAIN live \ {id} |-> live[x]], topoheights)

get_median_topoheight(live, topoheights, our_topoheight, checked) ==
    LET collected == CollectValues(live, topoheights)
        pushed == IF our_topoheight # None
                  THEN Append(collected, our_topoheight[1]) ELSE collected
        len == Len(pushed)
        values == SortValues(pushed)
    IN  IF len = 0
        THEN [value |-> 0, err |-> "Ok", ovf |-> FALSE]
        ELSE IF len % 2 = 0
        THEN LET left == values[(len \div 2) - 1 + 1]
                 right == values[(len \div 2) + 1]
                 ovf == left + right >= U64_MOD
             IN  IF ovf /\ checked
                 THEN [value |-> 0, err |-> "Panic", ovf |-> TRUE]
                 ELSE [value |-> ((left + right) % U64_MOD) \div 2, err |-> "Ok", ovf |-> ovf]
        ELSE [value |-> values[(len \div 2) + 1], err |-> "Ok", ovf |-> FALSE]

GetMedianTopoheight ==
    /\ \E topoheights \in [DOMAIN peers -> TopoHeights],
          our_topoheight \in {None} \cup {Some(h) : h \in TopoHeights} :
          \E r \in Outcomes(get_median_topoheight(peers, topoheights, our_topoheight, FALSE),
                            get_median_topoheight(peers, topoheights, our_topoheight, TRUE)) :
              last' = [op |-> "get_median_topoheight", err |-> r.err, ovf |-> r.ovf,
                       value |-> r.value, topoheights |-> topoheights,
                       our_topoheight |-> our_topoheight]
    /\ UNCHANGED <<chainVars, now, inflight, peerVars>>

SpecMedian == InitStore /\ [][GetMedianTopoheight]_vars

----------------------------------------------------------------------------
(* The bytes of a StoredPeer.  Writer and Reader are not part of the       *)
(* sources at hand: an integer of n bytes is written most significant      *)
(* byte first, an Option as the byte 0, or the byte 1 and the value.       *)

(* Writer::write_u8, write_u16, write_u64: the n bytes of v *)
RECURSIVE UBytes(_, _)
UBytes(v, n) == IF n = 0 THEN <<>> ELSE Append(UBytes(v \div 256, n - 1), v % 256)

(* Reader::read_u8, read_u16, read_u64: the value of the bytes *)
RECURSIVE UValue(_)
UValue(bytes) ==
    IF bytes = <<>> THEN 0
    ELSE 256 * UValue(SubSeq(bytes, 1, Len(bytes) - 1)) + bytes[Len(bytes)]

(* Variant: the port is written before the fail count *)
WritePortBeforeFailCount(p) ==
    UBytes(p.first_seen, 8) \o UBytes(p.last_seen, 8) \o UBytes(p.last_connection_try, 8)
    \o UBytes(p.local_port, 2) \o UBytes(p.fail_count, 1)
    \o (IF p.temp_ban_until = None THEN <<0>> ELSE <<1>> \o UBytes(p.temp_ban_until[1], 8))
    \o (CASE p.state = "Whitelist" -> <<0>>
          [] p.state = "Graylist" -> <<1>>
          [] p.state = "Blacklist" -> <<2>>)

write_stored_peer(p) ==
    UBytes(p.first_seen, 8) \o UBytes(p.last_seen, 8) \o UBytes(p.last_connection_try, 8)
    \o UBytes(p.fail_count, 1) \o UBytes(p.local_port, 2)
    \o (IF p.temp_ban_until = None THEN <<0>> ELSE <<1>> \o UBytes(p.temp_ban_until[1], 8))
    \o (CASE p.state = "Whitelist" -> <<0>>
          [] p.state = "Graylist" -> <<1>>
          [] p.state = "Blacklist" -> <<2>>)

(* The reads in order; each `?` returns the error of the first read that  *)
(* fails                                                                  *)
read_stored_peer(bytes) ==
    LET Field(at, n) == UValue(SubSeq(bytes, at, at + n - 1))
        Failed(e) == [err |-> e, peer |-> NewStoredPeer(0, "Graylist", 0)]
    IN  IF Len(bytes) < 28 THEN Failed("InvalidSize")
        ELSE IF bytes[28] \notin {0, 1} THEN Failed("InvalidValue")
        ELSE LET some == bytes[28] = 1
                 at == IF some THEN 37 ELSE 29
             IN  IF Len(bytes) < at THEN Failed("InvalidSize")
                 ELSE IF bytes[at] \notin {0, 1, 2} THEN Failed("InvalidValue")
                 ELSE [err |-> "Ok",
                       peer |-> [first_seen |-> Field(1, 8),
                                 last_seen |-> Field(9, 8),
                                 last_connection_try |-> Field(17, 8),
                                 fail_count |-> Field(25, 1),
                                 local_port |-> Field(26, 2),
                                 temp_ban_until |-> IF some THEN Some(Field(29, 8)) ELSE None,
                                 state |-> CASE bytes[at] = 0 -> "Whitelist"
                                             [] bytes[at] = 1 -> "Graylist"
                                             [] bytes[at] = 2 -> "Blacklist"]]

(* The records written: small and large values in every field *)
StoredPeerValues ==
    [first_seen : {0, 65537}, last_seen : {1, 256}, last_connection_try : {255},
     fail_count : {0, 255}, local_port : {258, 65535},
     temp_ban_until : {None, Some(0), Some(65537)},
     state : {"Whitelist", "Graylist", "Blacklist"}]

WriteStoredPeer ==
    /\ \E p \in StoredPeerValues :
          last' = [op |-> "write", err |-> "Ok", ovf |-> FALSE, peer |-> p,
                   bytes |-> write_stored_peer(p)]
    /\ UNCHANGED <<chainVars, now, inflight, peerVars>>

(* The bytes last written are read back, as they are, with another state  *)
(* byte, or cut short                                                     *)
ReadStoredPeer ==
    /\ last.op = "write"
    /\ \E bytes \in {last.bytes, SubSeq(last.bytes, 1, Len(last.bytes) - 1)}
                    \cup {[last.bytes EXCEPT ![Len(last.bytes)] = b] : b \in {3, 255}} :
          LET r == read_stored_peer(bytes)
          IN  last' = [op |-> "read", err |-> r.err, ovf |-> FALSE, peer |-> r.peer,
                       bytes |-> bytes, written |-> last.peer]
    /\ UNCHANGED <<chainVars, now, inflight, peerVars>>

SpecSerial == InitStore /\ [][WriteStoredPeer \/ ReadStoredPeer]_vars

----------------------------------------------------------------------------
(* The stored list: states and bans *)

(* C19: blacklist_address(ip) leaves a record for ip with state           *)
(* Blacklist, a new one when ip had none and otherwise the stored one     *)
(* with only its state changed, and touches no other record; a record in  *)
(* state Blacklist is refused by is_allowed at every time, and stays in   *)
(* that state until a call that sets states (whitelist_address, or the    *)
(* removal of set_graylist_for_peer) changes it.                          *)
C19_BlacklistSticks ==
    /\ [][(last'.op = "blacklist_address" /\ last' # last) =>
             /\ DOMAIN cache' = DOMAIN cache \cup {last'.ip}
             /\ \A ip \in DOMAIN cache \ {last'.ip} : cache'[ip] = cache[ip]
             /\ cache'[last'.ip] =
                   IF last'.ip \in DOMAIN cache
                   THEN [cache[last'.ip] EXCEPT !.state = "Blacklist"]
                   ELSE NewStoredPeer(0, "Blacklist", now)
             /\ ~is_allowed(cache', last'.ip, now')]_vars
    /\ [](\A ip \in DOMAIN cache : \A t \in 0..(MaxClock + 1) :
             cache[ip].state = "Blacklist" => ~is_allowed(cache, ip, t))
    /\ [][\A ip \in DOMAIN cache :
             (/\ cache[ip].state = "Blacklist"
              /\ last'.op \notin {"whitelist_address", "set_graylist_for_peer"}) =>
                 (ip \in DOMAIN cache' /\ cache'[ip].state = "Blacklist")]_vars

C19_Witness ==
    /\ last.op = "blacklist_address"
    /\ cache[last.ip].state = "Blacklist"
    /\ cache[last.ip].local_port # 0
    /\ cache[last.ip].first_seen < cache[last.ip].last_seen
    /\ cache[last.ip].temp_ban_until # None
    /\ cache[last.ip].temp_ban_until[1] < now
    /\ ~is_allowed(cache, last.ip, now)
    /\ \E p \in exited : p.ip = last.ip
    /\ \E ip \in DOMAIN cache : cache[ip] = NewStoredPeer(0, "Blacklist", 0)

(* C20: when the latest call on the stored list is a temp_ban_address(ip, *)
(* seconds) made at time at, the record of ip has temp_ban_until equal to *)
(* at + seconds, and is_allowed(ip) is false as long as the clock is not  *)
(* past at + seconds.                                                     *)
C20_TempBanAsStated ==
    last.op = "temp_ban_address" =>
        /\ last.ip \in DOMAIN cache
        /\ cache[last.ip].temp_ban_until = Some(last.at + last.seconds)
        /\ now <= last.at + last.seconds => ~is_allowed(cache, last.ip, now)

(* C21: when the latest call on the stored list is a                      *)
(* set_graylist_for_peer(ip), a record that ip still has is one with a    *)
(* local port other than 0 and has state Graylist.                        *)
C21_GraylistAsStated ==
    (last.op = "set_graylist_for_peer" /\ last.ip \in DOMAIN cache) =>
        /\ cache[last.ip].local_port # 0
        /\ cache[last.ip].state = "Graylist"

(* C22: is_allowed(ip) is true for an ip without a record, and for a      *)
(* stored ip exactly when the state is not Blacklist and temp_ban_until   *)
(* is absent or strictly before the current time; a call leaves the       *)
(* stored list and the clock as they were, so that the same call made     *)
(* again at once returns the same value.                                  *)
C22_IsAllowed ==
    /\ [](\A ip \in Ips : \A t \in 0..(MaxClock + 1) :
             is_allowed(cache, ip, t) =
                 \/ ip \notin DOMAIN cache
                 \/ /\ cache[ip].state # "Blacklist"
                    /\ \/ cache[ip].temp_ban_until = None
                       \/ cache[ip].temp_ban_until[1] < t)
    /\ [][(last'.op = "is_allowed" /\ last' # last) =>
             /\ cache' = cache
             /\ now' = now
             /\ last'.value = is_allowed(cache, last'.ip, now)
             /\ last'.value = is_allowed(cache', last'.ip, now')]_vars

C22_Witness ==
    /\ last.op = "is_allowed"
    /\ ~last.value
    /\ last.ip \in DOMAIN cache
    /\ cache[last.ip].state = "Whitelist"
    /\ cache[last.ip].temp_ban_until = Some(now)
    /\ \E ip \in Ips : ip \notin DOMAIN cache /\ is_allowed(cache, ip, now)

(* C23: in a row of calls of increase_fail_count_for_stored_peer(ip,     *)
(* true) that starts with no record, or a fresh one, for ip, the calls up *)
(* to number PEER_FAIL_TO_CONNECT_LIMIT - 1 leave temp_ban_until unset    *)
(* and call number PEER_FAIL_TO_CONNECT_LIMIT sets it to the time of the  *)
(* call plus PEER_TEMP_BAN_TIME_ON_CONNECT.                               *)
C23_BanAtLimitAsStated ==
    last.op = "increase_fail_count_for_stored_peer" =>
        /\ last.streak \in 1..(PEER_FAIL_TO_CONNECT_LIMIT - 1) =>
              cache[last.ip].temp_ban_until = None
        /\ last.streak = PEER_FAIL_TO_CONNECT_LIMIT =>
              cache[last.ip].temp_ban_until = Some(last.at + PEER_TEMP_BAN_TIME_ON_CONNECT)

(* C23, as the code has it: the calls up to number                        *)
(* PEER_FAIL_TO_CONNECT_LIMIT leave temp_ban_until unset, and the ban is  *)
(* set by call number PEER_FAIL_TO_CONNECT_LIMIT + 1, the first that      *)
(* finds fail_count equal to the limit.                                   *)
C23_BanAfterLimit ==
    last.op = "increase_fail_count_for_stored_peer" =>
        /\ last.streak > 0 => cache[last.ip].fail_count = last.streak
        /\ last.streak \in 1..PEER_FAIL_TO_CONNECT_LIMIT =>
              cache[last.ip].temp_ban_until = None
        /\ last.streak = PEER_FAIL_TO_CONNECT_LIMIT + 1 =>
              /\ cache[last.ip].temp_ban_until =
                    Some(last.at + PEER_TEMP_BAN_TIME_ON_CONNECT)
              /\ now <= last.at + PEER_TEMP_BAN_TIME_ON_CONNECT =>
                    ~is_allowed(cache, last.ip, now)

C23_Witness ==
    /\ last.op = "increase_fail_count_for_stored_peer"
    /\ last.streak = PEER_FAIL_TO_CONNECT_LIMIT + 1
    /\ last.at > 0
    /\ cache[last.ip].temp_ban_until = Some(last.at + PEER_TEMP_BAN_TIME_ON_CONNECT)
    /\ cache[last.ip].first_seen = 0

(* C24: increase_fail_count_for_stored_peer(ip, temp_ban) on an ip whose  *)
(* record is Whitelist changes nothing in the stored list, for both       *)
(* values of temp_ban and whatever the record's fail_count.               *)
C24_WhitelistExempt ==
    [][\A ip \in DOMAIN cache :
          (/\ cache[ip].state = "Whitelist"
           /\ last'.op = "increase_fail_count_for_stored_peer"
           /\ last'.ip = ip) => cache' = cache]_vars

C24_Witness ==
    /\ last.op = "increase_fail_count_for_stored_peer"
    /\ last.temp_ban
    /\ last.at = now
    /\ cache[last.ip].state = "Whitelist"
    /\ cache[last.ip].fail_count = PEER_FAIL_TO_CONNECT_LIMIT
    /\ cache[last.ip].temp_ban_until = None

(* C25: find_peer_to_connect returns None exactly when no stored record   *)
(* is eligible (state not Blacklist, last_connection_try + fail_count *   *)
(* P2P_EXTEND_PEERLIST_DELAY <= now, no live peer at its address);        *)
(* otherwise it returns the address of an eligible record, the first      *)
(* eligible Whitelist record when there is one and else the first         *)
(* eligible Graylist record, and that record gets last_connection_try =   *)
(* now while nothing else in the stored list changes.                     *)
C25_FindPeerToConnect ==
    [][(last'.op = "find_peer_to_connect" /\ last' # last) =>
          LET order == last'.stored_peers
              Eligible(ip) ==
                  /\ cache[ip].state # "Blacklist"
                  /\ cache[ip].last_connection_try
                        + cache[ip].fail_count * P2P_EXTEND_PEERLIST_DELAY <= now
                  /\ ~\E id \in DOMAIN peers :
                         peers[id].ip = ip /\ peers[id].local_port = cache[ip].local_port
              E == {i \in DOMAIN order : Eligible(order[i])}
              W == {i \in E : cache[order[i]].state = "Whitelist"}
              First(S) == CHOOSE i \in S : \A j \in S : i <= j
              Returned(ip) ==
                  /\ last'.value = Some(SocketAddr(ip, cache[ip].local_port))
                  /\ cache' = [cache EXCEPT ![ip].last_connection_try = now]
          IN  /\ Range(order) = DOMAIN cache
              /\ (last'.value = None) = (E = {})
              /\ E = {} => cache' = cache
              /\ W # {} => Returned(order[First(W)])
              /\ (E # {} /\ W = {}) =>
                    /\ cache[order[First(E)]].state = "Graylist"
                    /\ Returned(order[First(E)])]_vars

C25_Witness ==
    /\ last.op = "find_peer_to_connect"
    /\ last.at = now
    /\ Len(last.stored_peers) = 2
    /\ cache[last.stored_peers[1]].state = "Graylist"
    /\ cache[last.stored_peers[1]].fail_count = 1
    /\ cache[last.stored_peers[1]].last_connection_try = 0
    /\ cache[last.stored_peers[2]].state = "Whitelist"
    /\ cache[last.stored_peers[2]].last_connection_try = now
    /\ now = 1
    /\ last.value =
          Some(SocketAddr(last.stored_peers[2], cache[last.stored_peers[2]].local_port))

(* C26: get_median_topoheight returns 0 when there is no value, the       *)
(* middle value of the ascending order for an odd count, and the average  *)
(* of the two middle values, rounded down, for an even count, whatever    *)
(* the values are in the range of 64 bits.                                *)
C26_MedianAsStated ==
    last.op = "get_median_topoheight" =>
        LET n == Cardinality(DOMAIN last.topoheights) + Len(last.our_topoheight)
            Count(v) == Cardinality({id \in DOMAIN last.topoheights : last.topoheights[id] = v})
                        + (IF last.our_topoheight = Some(v) THEN 1 ELSE 0)
            sorted == CHOOSE sq \in [1..n -> TopoHeights] :
                          /\ \A i \in 1..(n - 1) : sq[i] <= sq[i + 1]
                          /\ \A v \in TopoHeights :
                                Cardinality({i \in 1..n : sq[i] = v}) = Count(v)
        IN  /\ last.err = "Ok"
            /\ last.value = IF n = 0 THEN 0
                            ELSE IF n % 2 = 1 THEN sorted[(n + 1) \div 2]
                            ELSE (sorted[n \div 2] + sorted[(n \div 2) + 1]) \div 2

(* C27: the bytes written for a StoredPeer are its fields in the order    *)
(* first_seen, last_seen, last_connection_try, fail_count, local_port,    *)
(* temp_ban_until, state, with the state byte 0, 1 or 2; reading them     *)
(* back gives the record that was written, and reading bytes with any     *)
(* other state byte is an error.                                          *)
C27_RoundTrip ==
    /\ last.op = "write" =>
          LET p == last.peer
              n == Len(last.bytes)
          IN  /\ read_stored_peer(last.bytes) = [err |-> "Ok", peer |-> p]
              /\ UValue(SubSeq(last.bytes, 1, 8)) = p.first_seen
              /\ UValue(SubSeq(last.bytes, 9, 16)) = p.last_seen
              /\ UValue(SubSeq(last.bytes, 17, 24)) = p.last_connection_try
              /\ last.bytes[25] = p.fail_count
              /\ UValue(SubSeq(last.bytes, 26, 27)) = p.local_port
              /\ IF p.temp_ban_until = None
                 THEN last.bytes[28] = 0 /\ n = 29
                 ELSE /\ last.bytes[28] = 1
                      /\ UValue(SubSeq(last.bytes, 29, 36)) = p.temp_ban_until[1]
                      /\ n = 37
              /\ last.bytes[n] = (CASE p.state = "Whitelist" -> 0
                                    [] p.state = "Graylist" -> 1
                                    [] p.state = "Blacklist" -> 2)
    /\ last.op = "read" =>
          /\ last.bytes = write_stored_peer(last.written) =>
                (last.err = "Ok" /\ last.peer = last.written)
          /\ (/\ Len(last.bytes) = Len(write_stored_peer(last.written))
              /\ last.bytes[Len(last.bytes)] \notin {0, 1, 2}) => last.err = "InvalidValue"

C27_Witness ==
    /\ last.op = "read"
    /\ last.err = "Ok"
    /\ last.peer = last.written
    /\ last.peer.temp_ban_until = Some(65537)
    /\ last.peer.local_port = 258
    /\ last.peer.fail_count = 255
    /\ last.peer.state = "Blacklist"
    /\ Len(last.bytes) = 37

----------------------------------------------------------------------------
(* Templates, the mempool and the replay of the chain *)

(* C28: for every mempool content, every miner and every sorted view, the *)
(* block that get_block_template and build_complete_block_from_block      *)
(* produce is within the bound that add_new_block enforces: its size plus *)
(* the sizes of its transactions is at most MAX_BLOCK_SIZE.               *)
C28_TemplateWithinSize ==
    \A key \in Keys, txs \in SortedViews(mempool) :
        LET r == build_complete_block_from_block(BC, get_block_template(BC, key, now, txs))
        IN  /\ r.err = "Ok"
            /\ BlockSize(r.block) + SumSizes(r.block.transactions) <= MAX_BLOCK_SIZE

(* C29: every transaction in the mempool passes                           *)
(* verify_transaction_with_hash on the current accounts, with the nonce   *)
(* check, so that no transaction that an applied block has made invalid   *)
(* stays in the mempool.                                                  *)
C29_MempoolStaysValid ==
    \A tx \in mempool :
        verify_transaction_with_hash(accounts, tx, TxHash(tx), FALSE) = "Ok"

(* check_validity: the loop over the transactions of a stored block.     *)
(* verify_transaction runs on the accounts as they are now                *)
RECURSIVE ValidityOfTxs(_, _, _)
ValidityOfTxs(bc, block, i) ==
    IF i > Len(block.transactions) THEN "Ok"
    ELSE LET tx == block.transactions[i]
             tx_hash == TxHash(tx)
             verified == verify_transaction_with_hash(bc.accounts, tx, tx_hash, TRUE)
         IN  IF is_coinbase(tx) THEN "InvalidTxInBlock"
             ELSE IF verified # "Ok" THEN verified
             ELSE IF tx_hash \notin Range(block.txs_hashes) THEN "InvalidTxInBlock"
             ELSE ValidityOfTxs(bc, block, i + 1)

(* check_validity: the loop over the stored blocks, from the genesis on *)
RECURSIVE ValidityOfBlocks(_, _, _)
ValidityOfBlocks(bc, i, circulating_supply) ==
    IF i > Len(bc.blocks)
    THEN [err |-> "Ok", circulating_supply |-> circulating_supply]
    ELSE LET block == bc.blocks[i]
             index == i - 1
             parent == get_block_at_height(bc, block.height - 1)
             reward == get_block_reward(circulating_supply)
             Failed(e) == [err |-> e, circulating_supply |-> circulating_supply]
         IN  IF block.height # index THEN Failed("InvalidBlockHeight")
             ELSE IF block.height # 0 /\ parent.err # "Ok" THEN Failed(parent.err)
             ELSE IF block.height # 0 /\ BlockHash(parent.block) # block.previous_hash
             THEN Failed("InvalidHash")
             ELSE IF Len(block.transactions) # Len(block.txs_hashes)
             THEN Failed("InvalidBlockTxs")
             ELSE IF ~check_difficulty(BlockHash(block), block.difficulty)
             THEN Failed("InvalidDifficulty")
             ELSE IF ~is_coinbase(block.miner_tx) THEN Failed("InvalidMinerTx")
             ELSE IF block.miner_tx.block_reward # reward THEN Failed("InvalidBlockReward")
             ELSE IF ValidityOfTxs(bc, block, 1) # "Ok"
             THEN Failed(ValidityOfTxs(bc, block, 1))
             ELSE IF SumFees(block.transactions) # block.miner_tx.fee_reward
             THEN Failed("InvalidBlockReward")
             ELSE ValidityOfBlocks(bc, i + 1, circulating_supply + reward)

check_validity(bc, checked) ==
    IF bc.height # Len(bc.blocks) THEN "InvalidBlockHeight"
    ELSE LET replay == ValidityOfBlocks(bc, 1, 0)
             total == SumBalances(bc.accounts, DOMAIN bc.accounts)
         IN  IF replay.err # "Ok" THEN replay.err
             ELSE IF checked /\ total >= U64_MOD THEN "Panic"
             ELSE IF replay.circulating_supply # bc.supply THEN "InvalidCirculatingSupply"
             ELSE IF total % U64_MOD # bc.supply THEN "InvalidCirculatingSupply"
             ELSE "Ok"

(* C30: for a chain built by accepted blocks only, with no Burn           *)
(* transaction and no nonce used twice, check_validity returns Ok in      *)
(* both builds, whatever the balances of the senders are now.             *)
C30_ReplayAccepts ==
    (Running /\ NoBurnApplied /\ C3_NoNonceReuse) =>
        \A checked \in BOOLEAN : check_validity(BC, checked) = "Ok"

-----------------------------------------------------------------------------
(* Lookups of stored blocks *)

(* self.get_height() - 1 is a u64 subtraction: on a chain of height 0 it  *)
(* panics with overflow checks and wraps to u64::MAX without them         *)
get_top_block(bc, checked) ==
    IF bc.height = 0 /\ checked THEN [err |-> "Panic", block |-> <<>>]
    ELSE get_block_at_height(bc, (bc.height - 1) % U64_MOD)

(* C31: get_block_at_height(h) returns the stored block when h < height   *)
(* and InvalidBlockHeight for every h >= height; get_top_block returns an *)
(* error on a chain of height 0; neither panics on an index out of the    *)
(* block list or on an underflow, in any chain state and for any h.       *)
C31_LookupsAsStated ==
    /\ \A h \in (0..(MaxHeight + 1)) \cup {U64_MOD - 1} :
        get_block_at_height(BC, h) =
            IF h < height /\ h < Len(blocks)
            THEN [err |-> "Ok", block |-> blocks[h + 1]]
            ELSE [err |-> "InvalidBlockHeight", block |-> <<>>]
    /\ \A checked \in BOOLEAN :
        /\ get_top_block(BC, checked).err # "Panic"
        /\ height = 0 => get_top_block(BC, checked).err # "Ok"

-----------------------------------------------------------------------------
(* Concurrent removals from a populated live map *)

(* Every peer object is connected and both tasks may call remove_peer *)
InitRemove ==
    /\ blocks = EmptyChain.blocks
    /\ height = EmptyChain.height
    /\ supply = EmptyChain.supply
    /\ top_hash = EmptyChain.top_hash
    /\ difficulty = EmptyChain.difficulty
    /\ mempool = EmptyChain.mempool
    /\ accounts = EmptyChain.accounts
    /\ broadcasts = EmptyChain.broadcasts
    /\ now = 0
    /\ inflight = {}
    /\ last = [op |-> "new", err |-> "Ok", ovf |-> FALSE]
    /\ peers = Connected(PeerObjs)
    /\ cache = NoStoredPeers
    /\ shared_peers \in SharedInits
    /\ peers_lock = "free"
    /\ shared_locks = {}
    /\ tasks = [t \in Tasks |-> IdleTask]
    /\ peer_disconnect_channel \in BOOLEAN
    /\ exited = {}
    /\ max_peers = MaxPeers

SpecRemove == InitRemove /\ [][RemovePeer]_vars

(* The tasks whose remove_peer call has taken p out of the live map and   *)
(* has not returned yet                                                   *)
Holders(p) ==
    {t \in Tasks : tasks[t].pc \in {"fanout", "sending", "channel"} /\ tasks[t].peer = p}

(* Where the peer p is: in the live map, with the call that removed it,   *)
(* or handed over by a call that returned                                 *)
Place(p) ==
    IF p.id \in DOMAIN peers THEN "live"
    ELSE IF Holders(p) # {} THEN "held"
    ELSE "gone"

(* C32: remove_peer for an id absent from the live map returns            *)
(* PeerNotFoundById without a packet, a change of a shared-peers map or a *)
(* send on the disconnect channel; of the remove_peer calls for one id,   *)
(* however interleaved, one takes the peer and returns Ok after handing   *)
(* it to the disconnect channel once, and no other call gets hold of it.  *)
C32_RemoveOnce ==
    [][/\ \A t \in Tasks :
            (Leaves(t, "remove_locked") /\ tasks[t].peer_id \notin DOMAIN peers) =>
                /\ tasks'[t] = IdleTask
                /\ last' = [op |-> "remove_peer", err |-> "PeerNotFoundById", ovf |-> FALSE]
                /\ peers' = peers
                /\ shared_peers' = shared_peers
                /\ shared_locks' = shared_locks
       /\ \A t \in Tasks :
            (Leaves(t, "remove_locked") /\ tasks[t].peer_id \in DOMAIN peers) =>
                /\ \E p \in PeerObjs : p = peers[tasks[t].peer_id] /\ Holders(p)' = {t}
                /\ tasks[t].peer_id \notin DOMAIN peers'
       /\ \A p \in PeerObjs :
            /\ Cardinality(Holders(p)') <= 1
            /\ p.id \in DOMAIN peers' => Holders(p)' = {}
            /\ Place(p) = "gone" => Place(p)' = "gone"
            /\ Place(p) = "held" => Place(p)' # "live"
            /\ (Place(p) = "live" /\ Place(p)' # "live") => Place(p)' = "held"
            /\ (Place(p) = "held" /\ Place(p)' = "gone") =>
                   \E t \in Holders(p) :
                       /\ Leaves(t, "channel")
                       /\ last'.op = "remove_peer"
                       /\ last'.err = "Ok"
                       /\ last'.offered = peer_disconnect_channel
      ]_vars

(* A call for id 1 has failed while the call that removed peer 1 is about *)
(* to hand it to the channel                                              *)
C32_Witness ==
    /\ last.op = "remove_peer"
    /\ last.err = "PeerNotFoundById"
    /\ DOMAIN peers = {2, 3}
    /\ peer_disconnect_channel
    /\ \E t \in Tasks : tasks[t].pc = "channel" /\ tasks[t].peer = PeerOf(1)

-----------------------------------------------------------------------------
(* Failed connections at the top of the counter *)

(* The record of one address after U8_MOD - MaxFails failed connections   *)
(* made without temp_ban                                                  *)
InitWrap ==
    /\ blocks = EmptyChain.blocks
    /\ height = EmptyChain.height
    /\ supply = EmptyChain.supply
    /\ top_hash = EmptyChain.top_hash
    /\ difficulty = EmptyChain.difficulty
    /\ mempool = EmptyChain.mempool
    /\ accounts = EmptyChain.accounts
    /\ broadcasts = EmptyChain.broadcasts
    /\ now = 0
    /\ inflight = {}
    /\ last = [op |-> "new", err |-> "Ok", ovf |-> FALSE]
    /\ peers = Connected({})
    /\ \E state \in {"Graylist", "Blacklist"} :
          cache = set_stored_peer(NoStoredPeers, PeerOf(1).ip,
                      [NewStoredPeer(0, state, 0) EXCEPT !.fail_count = U8_MOD - MaxFails])
    /\ shared_peers = [p \in PeerObjs |-> NoSharedPeers]
    /\ peers_lock = "free"
    /\ shared_locks = {}
    /\ tasks = [t \in Tasks |-> IdleTask]
    /\ peer_disconnect_channel = TRUE
    /\ exited = {}
    /\ max_peers = MaxPeers

SpecWrap ==
    InitWrap /\ [][ClockTick \/ \E ip \in Ips, temp_ban \in BOOLEAN :
                                    IncreaseFailCount(ip, temp_ban)]_vars

(* C33: on a record that is not Whitelist, each call of                   *)
(* increase_fail_count_for_stored_peer sets fail_count to the old count   *)
(* plus one modulo 256, so 255 is followed by 0; with temp_ban set,       *)
(* temp_ban_until becomes now + PEER_TEMP_BAN_TIME_ON_CONNECT on every    *)
(* call that finds fail_count a nonzero multiple of                       *)
(* PEER_FAIL_TO_CONNECT_LIMIT, before the wrap and after it, and is left  *)
(* as it was on every other call.                                         *)
C33_CounterWraps ==
    [][\A ip \in Ips :
          (/\ last'.op = "increase_fail_count_for_stored_peer"
           /\ last'.ip = ip
           /\ now' = now) =>
              LET old == IF has_peer_stored(cache, ip) THEN cache[ip]
                         ELSE NewStoredPeer(0, "Graylist", now)
                  at_multiple == \E k \in 1..(U8_MOD \div PEER_FAIL_TO_CONNECT_LIMIT) :
                                     old.fail_count = k * PEER_FAIL_TO_CONNECT_LIMIT
              IN  old.state # "Whitelist" =>
                     /\ cache'[ip].fail_count =
                            IF old.fail_count = U8_MOD - 1 THEN 0 ELSE old.fail_count + 1
                     /\ cache'[ip].temp_ban_until =
                            IF last'.temp_ban /\ at_multiple
                            THEN Some(now + PEER_TEMP_BAN_TIME_ON_CONNECT)
                            ELSE old.temp_ban_until
                     /\ \A x \in DOMAIN cache \ {ip} : cache'[x] = cache[x]
      ]_vars

(* The counter of the first address has wrapped and the call that found   *)
(* it at the limit again has set the ban                                  *)
C33_Witness ==
    /\ last.op = "increase_fail_count_for_stored_peer"
    /\ last.ip = PeerOf(1).ip
    /\ last.temp_ban
    /\ last.at > 0
    /\ cache[last.ip].fail_count = PEER_FAIL_TO_CONNECT_LIMIT + 1
    /\ cache[last.ip].temp_ban_until = Some(last.at + PEER_TEMP_BAN_TIME_ON_CONNECT)

-----------------------------------------------------------------------------
(* The stored list and the live peers of an address *)

(* C34: when blacklist_address(ip) has returned Ok, every peer of the     *)
(* live map whose connection has that ip has been signalled to exit, also *)
(* when several live peers share the ip, and the live map is as it was.   *)
C34_AllPeersSignalled ==
    [][(last'.op = "blacklist_address" /\ last'.err = "Ok" /\ now' = now) =>
          /\ \A id \in DOMAIN peers : peers[id].ip = last'.ip => peers[id] \in exited'
          /\ peers' = peers]_vars

-----------------------------------------------------------------------------
(* Dialling while addresses are banned *)

SpecDial ==
    InitFind /\ [][\/ ClockTick
                   \/ \E ip \in Ips, seconds \in 0..MaxSeconds : TempBanAddress(ip, seconds)
                   \/ FindPeerToConnect]_vars

(* C35: the address that find_peer_to_connect returns is never that of a  *)
(* stored record for which is_allowed is false at the time of the call: a *)
(* Blacklist record or one whose temp_ban_until has not passed.           *)
C35_CandidateIsAllowed ==
    [][(last'.op = "find_peer_to_connect" /\ last' # last) =>
          \A ip \in DOMAIN cache :
              last'.value = Some(SocketAddr(ip, cache[ip].local_port)) =>
                  is_allowed(cache, ip, now)]_vars

-----------------------------------------------------------------------------
(* The stored list under concurrent calls.  The calls run on the threads  *)
(* of the runtime; each store call (has_peer, get_stored_peer,            *)
(* set_stored_peer) is atomic, and a call that reads a record and writes  *)
(* it back does so in store calls of its own, between which the store     *)
(* calls of the other task may run.                                       *)

(* has_peer followed by get_stored_peer *)
Lookup(c, ip) == IF has_peer_stored(c, ip) THEN Some(c[ip]) ELSE None

(* The stored list as the call saw it: the record it read, if any *)
AsCache(ip, seen) ==
    IF seen = None THEN NoStoredPeers ELSE set_stored_peer(NoStoredPeers, ip, seen[1])

(* The record that the call hands to set_stored_peer, computed from the   *)
(* copy it read; None when the call stores nothing                        *)
Written(op, ip, arg, seen, t) ==
    LET c == AsCache(ip, seen)
    IN  CASE op = "update_peer" -> Some(update_peer(c, arg, t)[ip])
          [] op = "blacklist_address" -> Some(set_state_to_address(c, ip, "Blacklist", t)[ip])
          [] op = "temp_ban_address" -> Some(temp_ban_address(c, ip, arg, t)[ip])
          [] op = "increase_fail_count_for_stored_peer" ->
                IF seen # None /\ seen[1].state = "Whitelist" THEN None
                ELSE Some(increase_fail_count_for_stored_peer(c, ip, arg, t)[ip])
          [] op = "find_peer_to_connect" -> Some([seen[1] EXCEPT !.last_connection_try = t])

(* The call op(ip, arg) of task t up to the return of get_stored_peer *)
StoreRead(t, op, ip, arg) ==
    /\ ~Busy(t)
    /\ (op = "increase_fail_count_for_stored_peer" /\ has_peer_stored(cache, ip)) =>
           cache[ip].fail_count < MaxFails
    /\ tasks' = [tasks EXCEPT ![t] = [op |-> op, pc |-> "write", ip |-> ip, arg |-> arg,
                                      seen |-> Lookup(cache, ip)]]
    /\ UNCHANGED <<chainVars, now, inflight, last, cache>>
    /\ UNCHANGED <<peers, shared_peers, peers_lock, shared_locks,
                   peer_disconnect_channel, exited, max_peers>>

(* find_peer_to_connect: the loop over the stored records.  Without a     *)
(* candidate the call returns None; with a Whitelist candidate the copy   *)
(* of the iteration is written next; with a Graylist one the record is    *)
(* read again first                                                       *)
FindLoop(t) ==
    /\ ~Busy(t)
    /\ \E stored_peers \in {sq \in [1..Cardinality(DOMAIN cache) -> DOMAIN cache] :
                               \A i, j \in DOMAIN sq : i # j => sq[i] # sq[j]} :
          LET r == find_peer_to_connect(cache, peers, now, stored_peers)
          IN  IF r.value = None
              THEN /\ tasks' = tasks
                   /\ last' = [op |-> "find_peer_to_connect", err |-> "Ok", ovf |-> FALSE,
                               value |-> None]
              ELSE LET ip == r.value[1].ip
                   IN  /\ tasks' = [tasks EXCEPT ![t] =
                              [op |-> "find_peer_to_connect",
                               pc |-> IF cache[ip].state = "Whitelist" THEN "write" ELSE "reread",
                               ip |-> ip, arg |-> r.value, seen |-> Lookup(cache, ip)]]
                       /\ last' = last
    /\ UNCHANGED <<chainVars, now, inflight, cache>>
    /\ UNCHANGED <<peers, shared_peers, peers_lock, shared_locks,
                   peer_disconnect_channel, exited, max_peers>>

(* find_peer_to_connect: self.cache.get_stored_peer(&ip) for the Graylist *)
(* candidate                                                              *)
StoreReread(t) ==
    /\ tasks[t].pc = "reread"
    /\ tasks' = [tasks EXCEPT ![t].seen = Lookup(cache, tasks[t].ip), ![t].pc = "write"]
    /\ UNCHANGED <<chainVars, now, inflight, last, cache>>
    /\ UNCHANGED <<peers, shared_peers, peers_lock, shared_locks,
                   peer_disconnect_channel, exited, max_peers>>

(* The rest of the call: set_stored_peer with the changed copy, for       *)
(* blacklist_address the signal to a live peer of the address, and the    *)
(* return                                                                 *)
StoreWrite(t) ==
    /\ tasks[t].pc = "write"
    /\ LET w == Written(tasks[t].op, tasks[t].ip, tasks[t].arg, tasks[t].seen, now)
       IN  cache' = IF w = None THEN cache ELSE set_stored_peer(cache, tasks[t].ip, w[1])
    /\ IF tasks[t].op = "blacklist_address" /\ \E id \in DOMAIN peers : peers[id].ip = tasks[t].ip
       THEN \E id \in DOMAIN peers :
                /\ peers[id].ip = tasks[t].ip
                /\ exited' = exited \cup {peers[id]}
       ELSE exited' = exited
    /\ tasks' = [tasks EXCEPT ![t] = IdleTask]
    /\ last' = [op |-> tasks[t].op, err |-> "Ok", ovf |-> FALSE, ip |-> tasks[t].ip]
    /\ UNCHANGED <<chainVars, now, inflight>>
    /\ UNCHANGED <<peers, shared_peers, peers_lock, shared_locks,
                   peer_disconnect_channel, max_peers>>

(* The calls are made for one address, that of the first peer *)
NextRace ==
    \E t \in Tasks :
        LET peer == PeerOf(1)
            ip == peer.ip
        IN  \/ StoreRead(t, "update_peer", ip, peer)
            \/ StoreRead(t, "blacklist_address", ip, 0)
            \/ \E seconds \in 0..MaxSeconds : StoreRead(t, "temp_ban_address", ip, seconds)
            \/ \E temp_ban \in BOOLEAN :
                  StoreRead(t, "increase_fail_count_for_stored_peer", ip, temp_ban)
            \/ FindLoop(t)
            \/ StoreReread(t)
            \/ StoreWrite(t)

SpecRace == InitStore /\ [][NextRace]_vars

(* C36: once blacklist_address(ip) has returned Ok the stored state of ip *)
(* stays Blacklist under every interleaving with concurrent update_peer,  *)
(* increase_fail_count_for_stored_peer, temp_ban_address and              *)
(* find_peer_to_connect calls on the same ip (no call of                  *)
(* whitelist_address or set_graylist_for_peer is made).                   *)
C36_BlacklistSurvivesRaces ==
    [][\A ip \in DOMAIN cache :
          cache[ip].state = "Blacklist" =>
              (ip \in DOMAIN cache' /\ cache'[ip].state = "Blacklist")]_vars

-----------------------------------------------------------------------------
(* The checks of a transaction before it enters the mempool or the chain  *)
(* state.  The provider is read only: required_fees is what               *)
(* estimate_required_tx_fees returns, and usable lists, for the assets of *)
(* the transaction in the order of tx.get_assets(), what                  *)
(* get_usable_balance_at_maximum_topoheight returns: None or Some of the  *)
(* topoheight of the version.                                             *)

(* Variant: the check of the stable reference is made for every block     *)
(* version                                                                *)
PreVerifyAnyBlockVersion(tx, required_fees, usable, stable_topoheight, topoheight, block_version) ==
    LET RECURSIVE assets(_)
        assets(i) ==
            IF i > Len(usable) THEN "Ok"
            ELSE IF usable[i] = None THEN "NoStableReferenceFound"
            ELSE IF usable[i][1] > tx.reference.topoheight THEN "InvalidReferenceTopoheight"
            ELSE assets(i + 1)
    IN  IF tx.version # 0 THEN "InvalidTxVersion"
        ELSE IF required_fees > tx.fee THEN "InvalidTxFee"
        ELSE IF topoheight < tx.reference.topoheight THEN "InvalidReferenceTopoheight"
        ELSE IF stable_topoheight >= PRUNE_SAFETY_LIMIT
        THEN LET safety_stable_topoheight == stable_topoheight - PRUNE_SAFETY_LIMIT
             IN  IF tx.reference.topoheight <= safety_stable_topoheight
                 THEN assets(1)
                 ELSE "Ok"
        ELSE "Ok"

pre_verify_tx(tx, required_fees, usable, stable_topoheight, topoheight, block_version) ==
    LET RECURSIVE assets(_)
        assets(i) ==
            IF i > Len(usable) THEN "Ok"
            ELSE IF usable[i] = None THEN "NoStableReferenceFound"
            ELSE IF usable[i][1] > tx.reference.topoheight THEN "InvalidReferenceTopoheight"
            ELSE assets(i + 1)
    IN  IF tx.version # 0 THEN "InvalidTxVersion"
        ELSE IF required_fees > tx.fee THEN "InvalidTxFee"
        ELSE IF topoheight < tx.reference.topoheight THEN "InvalidReferenceTopoheight"
        ELSE IF block_version # "V0" /\ stable_topoheight >= PRUNE_SAFETY_LIMIT
        THEN LET safety_stable_topoheight == stable_topoheight - PRUNE_SAFETY_LIMIT
             IN  IF tx.reference.topoheight <= safety_stable_topoheight
                 THEN assets(1)
                 ELSE "Ok"
        ELSE "Ok"

TopoheightValues == 0..MaxTopoheight

(* What the provider may answer for the assets of a transaction *)
UsableBalances ==
    LET answers == {None} \cup {Some(topo) : topo \in TopoheightValues}
    IN  {<<>>} \cup {<<a>> : a \in answers} \cup {<<a, b>> : a \in answers, b \in answers}

(* One call in a behaviour: the function keeps nothing from call to call *)
PreVerifyTx ==
    /\ last.op = "new"
    /\ \E version \in {0, 1}, fee \in {0, 1}, required_fees \in {0, 1},
          reference \in TopoheightValues, stable_topoheight \in TopoheightValues,
          topoheight \in TopoheightValues, block_version \in {"V0", "V1"},
          usable \in UsableBalances :
          LET tx == [version |-> version, fee |-> fee, reference |-> [topoheight |-> reference]]
          IN  last' = [op |-> "pre_verify_tx", ovf |-> FALSE,
                       err |-> pre_verify_tx(tx, required_fees, usable, stable_topoheight,
                                             topoheight, block_version),
                       tx |-> tx, required_fees |-> required_fees, usable |-> usable,
                       stable_topoheight |-> stable_topoheight, topoheight |-> topoheight,
                       block_version |-> block_version]
    /\ UNCHANGED <<chainVars, now, inflight>>
    /\ UNCHANGED <<peers, cache, shared_peers, peers_lock, shared_locks, tasks,
                   peer_disconnect_channel, exited, max_peers>>

SpecPreVerify == InitStore /\ [][PreVerifyTx]_vars

(* C37: pre_verify_tx returns the first check that fails, in the order:   *)
(* InvalidTxVersion for a version other than 0, InvalidTxFee for a fee    *)
(* below the required fee, InvalidReferenceTopoheight for a reference     *)
(* above the current topoheight; then, for a block version other than V0  *)
(* with stable_topoheight >= PRUNE_SAFETY_LIMIT and a reference at or     *)
(* below stable_topoheight - PRUNE_SAFETY_LIMIT, the error of the first   *)
(* asset that has a usable version newer than the reference               *)
(* (InvalidReferenceTopoheight) or none (NoStableReferenceFound); in      *)
(* every other case Ok.                                                   *)
C37_PreVerifyOrder ==
    last.op = "pre_verify_tx" =>
        LET ref == last.tx.reference.topoheight
            Newer(i) == last.usable[i] # None /\ last.usable[i][1] > ref
            Missing(i) == last.usable[i] = None
            bad == {i \in DOMAIN last.usable : Newer(i) \/ Missing(i)}
            first == CHOOSE i \in bad : \A j \in bad : i <= j
            deep == /\ last.block_version # "V0"
                    /\ last.stable_topoheight >= PRUNE_SAFETY_LIMIT
                    /\ ref + PRUNE_SAFETY_LIMIT <= last.stable_topoheight
        IN  last.err =
                CASE last.tx.version # 0 -> "InvalidTxVersion"
                  [] last.tx.version = 0 /\ last.tx.fee < last.required_fees -> "InvalidTxFee"
                  [] last.tx.version = 0 /\ last.tx.fee >= last.required_fees
                        /\ ref > last.topoheight -> "InvalidReferenceTopoheight"
                  [] last.tx.version = 0 /\ last.tx.fee >= last.required_fees
                        /\ ref <= last.topoheight /\ deep /\ bad # {} ->
                            IF Missing(first) THEN "NoStableReferenceFound"
                            ELSE "InvalidReferenceTopoheight"
                  [] OTHER -> "Ok"

(* A call past the first three checks whose second asset has no usable    *)
(* version while the first has one that is not newer than the reference   *)
C37_Witness ==
    /\ last.op = "pre_verify_tx"
    /\ last.err = "NoStableReferenceFound"
    /\ last.block_version = "V1"
    /\ Len(last.usable) = 2
    /\ last.usable[1] = Some(last.tx.reference.topoheight)
    /\ last.usable[2] = None
    /\ last.tx.reference.topoheight = last.stable_topoheight - PRUNE_SAFETY_LIMIT

-----------------------------------------------------------------------------
(* The balance version a transaction is verified against.  versions is    *)
(* what the storage holds for the key and the asset: a map from the       *)
(* topoheights that have a version to whether that version carries an     *)
(* output balance.  hash_topo is the topoheight the storage has for the   *)
(* reference hash, None when that block is not topologically ordered.     *)

(* The highest topoheight of topos that is not above maximum *)
MaxBelow(topos, maximum) ==
    LET below == {t \in topos : t <= maximum}
    IN  IF below = {} THEN None ELSE Some(CHOOSE t \in below : \A u \in below : u <= t)

get_output_balance_at_maximum_topoheight(versions, maximum) ==
    MaxBelow({t \in DOMAIN versions : versions[t]}, maximum)

get_balance_at_maximum_topoheight(versions, maximum) ==
    MaxBelow(DOMAIN versions, maximum)

(* Variant: the output balance is used only when it is above both the     *)
(* reference and the reference block                                      *)
SearchOutputAboveBoth(versions, hash_topo, current_topoheight, reference) ==
    LET reference_block_topo ==
            IF hash_topo # None
            THEN IF hash_topo[1] = reference.topoheight THEN hash_topo[1]
                 ELSE IF reference.topoheight < current_topoheight THEN reference.topoheight
                 ELSE current_topoheight
            ELSE current_topoheight
        last_output == get_output_balance_at_maximum_topoheight(versions, current_topoheight)
        topo == last_output[1]
        use_output_balance ==
            last_output # None /\ reference.topoheight < topo /\ reference_block_topo < topo
        version ==
            IF last_output # None
            THEN IF reference.topoheight < topo /\ reference_block_topo < topo
                 THEN Some(topo)
                 ELSE IF topo < reference.topoheight \/ topo < reference_block_topo
                 THEN get_balance_at_maximum_topoheight(versions,
                          IF topo > reference_block_topo THEN topo ELSE reference_block_topo)
                 ELSE Some(topo)
            ELSE get_balance_at_maximum_topoheight(versions, reference_block_topo)
    IN  [use_output_balance |-> use_output_balance,
         new_version |-> version = None,
         version |-> IF version = None THEN current_topoheight ELSE version[1]]

(* [use_output_balance, new_version, version]; the version is named by   *)
(* its topoheight, current_topoheight for a new one                       *)
search_versioned_balance_for_reference(versions, hash_topo, current_topoheight, reference) ==
    LET reference_block_topo ==
            IF hash_topo # None
            THEN IF hash_topo[1] = reference.topoheight THEN hash_topo[1]
                 ELSE IF reference.topoheight < current_topoheight THEN reference.topoheight
                 ELSE current_topoheight
            ELSE current_topoheight
        last_output == get_output_balance_at_maximum_topoheight(versions, current_topoheight)
        topo == last_output[1]
        use_output_balance ==
            last_output # None /\ (reference.topoheight < topo \/ reference_block_topo < topo)
        version ==
            IF last_output # None
            THEN IF reference.topoheight < topo \/ reference_block_topo < topo
                 THEN Some(topo)
                 ELSE IF topo < reference.topoheight \/ topo < reference_block_topo
                 THEN get_balance_at_maximum_topoheight(versions,
                          IF topo > reference_block_topo THEN topo ELSE reference_block_topo)
                 ELSE Some(topo)
            ELSE get_balance_at_maximum_topoheight(versions, reference_block_topo)
    IN  [use_output_balance |-> use_output_balance,
         new_version |-> version = None,
         version |-> IF version = None THEN current_topoheight ELSE version[1]]

(* The versions the storage may hold for the key and the asset *)
BalanceVersions ==
    UNION {[topos -> BOOLEAN] : topos \in SUBSET TopoheightValues}

(* One call in a behaviour: the function keeps nothing from call to call *)
SearchVersionedBalance ==
    /\ last.op = "new"
    /\ \E versions \in BalanceVersions, current_topoheight \in TopoheightValues,
          topoheight \in TopoheightValues,
          hash_topo \in {None} \cup {Some(t) : t \in TopoheightValues} :
          LET reference == [topoheight |-> topoheight]
              r == search_versioned_balance_for_reference(versions, hash_topo,
                                                          current_topoheight, reference)
          IN  last' = [op |-> "search_versioned_balance_for_reference", err |-> "Ok",
                       ovf |-> FALSE, value |-> r, versions |-> versions,
                       hash_topo |-> hash_topo, current_topoheight |-> current_topoheight,
                       reference |-> reference]
    /\ UNCHANGED <<chainVars, now, inflight>>
    /\ UNCHANGED <<peers, cache, shared_peers, peers_lock, shared_locks, tasks,
                   peer_disconnect_channel, exited, max_peers>>

SpecSearch == InitStore /\ [][SearchVersionedBalance]_vars

(* C38: search_versioned_balance_for_reference returns use_output_balance *)
(* true exactly when the storage has, up to the current topoheight, an    *)
(* output balance at a topoheight above the reference topoheight or above *)
(* the resolved topoheight of the reference block; it returns new_version *)
(* true exactly when neither such an output balance nor a version at or   *)
(* below the reference block was found, and never returns both true.      *)
C38_OutputOrNewVersion ==
    last.op = "search_versioned_balance_for_reference" =>
        LET ref == last.reference.topoheight
            cur == last.current_topoheight
            block_topo ==
                IF last.hash_topo = None THEN cur
                ELSE IF last.hash_topo = Some(ref) THEN ref
                ELSE IF ref < cur THEN ref ELSE cur
            outputs == {t \in DOMAIN last.versions : last.versions[t] /\ t <= cur}
            newer == \E t \in outputs : t > ref \/ t > block_topo
            stored == \E t \in DOMAIN last.versions : t <= block_topo
        IN  /\ last.value.use_output_balance = newer
            /\ last.value.new_version = (~newer /\ ~stored)
            /\ ~(last.value.use_output_balance /\ last.value.new_version)
            /\ last.value.new_version => last.value.version = cur
            /\ ~last.value.new_version => last.value.version \in DOMAIN last.versions

(* A transaction sent after its reference: the output balance of the     *)
(* later version is used although a version at the reference exists      *)
C38_Witness ==
    /\ last.op = "search_versioned_balance_for_reference"
    /\ last.value.use_output_balance
    /\ ~last.value.new_version
    /\ last.hash_topo = Some(last.reference.topoheight)
    /\ last.reference.topoheight \in DOMAIN last.versions
    /\ last.value.version > last.reference.topoheight
    /\ last.value.version < last.current_topoheight

====
